---- MODULE Spec2Model ----
(***************************************************************************)
(* Model of the time-tracker backend: the ActiveSession register (one row  *)
(* per user), the TimeSession store, the session lifecycle handlers        *)
(* (POST /sessions/active, DELETE /sessions/active), the handlers of the   *)
(* store (POST /sessions, PATCH /sessions/:id), the project handlers       *)
(* (POST /projects, DELETE /projects/:id), the in-process                  *)
(* ActiveSessionEmitter and the SSE stream handler                         *)
(* (GET /sessions/active/stream).                                          *)
(*                                                                         *)
(* Every handler is an async function: each awaited database operation is  *)
(* one step (the point at which the database executes it), and the         *)
(* synchronous code that follows the await up to the next database         *)
(* operation belongs to the step that completes the await.  A step that    *)
(* publishes on the emitter is kept apart from the write it follows,       *)
(* because other handlers run between the commit and the continuation.     *)
(***************************************************************************)
EXTENDS Integers, Sequences, FiniteSets, TLC

(* ------------------------------ bounds -------------------------------- *)
\* Number of lifecycle / project requests the environment sends.
MaxReqs == 2
\* Number of stream connections the environment opens.
MaxStreams == 1
\* The clock runs from Epoch to Epoch + MaxTime, in ticks of MsPerTick ms.
MaxTime == 1
\* Number of simultaneous connections in the fan-out specification.
MaxSubscribers == 2

(* --------------------------- program constants ------------------------ *)
\* One clock tick of the model is 500 ms; Math.floor(ms / 1000) is then
\* floor(ticks / TicksPerSec).
MsPerTick == 500
TicksPerSec == 2
\* const QUERY_CACHE_MS = 100
QUERY_CACHE_MS == 100
\* Date.now() is far from 0 (the initial lastQueryTime): the clock starts at 1.
Epoch == 1

Reqs == 1..MaxReqs
Streams == 1..MaxStreams
Subscribers == 1..MaxSubscribers
Users == {"u1", "u2"}

(* ------------------------ optional values ----------------------------- *)
\* A JavaScript value that may be undefined, null or present.
Undefined == <<"undefined">>
Null == <<"null">>
Val(v) == <<"value", v>>
IsVal(o) == Len(o) = 2
Get(o) == o[2]

(* ------------------------------ strings ------------------------------- *)
\* A string is a sequence of characters; " " is the only whitespace used.
IsSpace(c) == c = " "

RECURSIVE TrimStart(_)
TrimStart(s) ==
  IF s # <<>> /\ IsSpace(Head(s)) THEN TrimStart(Tail(s)) ELSE s

RECURSIVE TrimEnd(_)
TrimEnd(s) ==
  IF s # <<>> /\ IsSpace(s[Len(s)]) THEN TrimEnd(SubSeq(s, 1, Len(s) - 1)) ELSE s

TrimOff(s) == s

\* String.prototype.trim
Trim(s) == TrimEnd(TrimStart(s))

(* ------------------------------ inputs -------------------------------- *)
\* Bodies of POST /sessions/active that pass activeSessionSchema.  startTime
\* is the client's: it may lie before the server's clock or after it.
FullBody ==
  [startTime |-> Epoch - 1, mode |-> "pomodoro", projectId |-> Val("p1"),
   description |-> Val(<<" ", "a">>), targetSeconds |-> Val(1),
   pomodoroPhase |-> Val("work"), pomodoroCycle |-> Val(1)]

MinimalBody ==
  [startTime |-> Epoch, mode |-> "stopwatch", projectId |-> Undefined,
   description |-> Undefined, targetSeconds |-> Undefined,
   pomodoroPhase |-> Undefined, pomodoroCycle |-> Undefined]

BlankBody ==
  [startTime |-> Epoch + 2, mode |-> "timer", projectId |-> Null,
   description |-> Val(<<" ">>), targetSeconds |-> Null,
   pomodoroPhase |-> Null, pomodoroCycle |-> Val(0)]

Bodies == {FullBody, MinimalBody, BlankBody}

\* The AccessToken table when the server starts: a token of each user and
\* a token of u1 that was revoked.
InitialTokens ==
  {[id |-> "k1", token |-> "t1", userId |-> "u1", revokedAt |-> Null, lastUsedAt |-> Null],
   [id |-> "k2", token |-> "t2", userId |-> "u2", revokedAt |-> Null, lastUsedAt |-> Null],
   [id |-> "k0", token |-> "t0", userId |-> "u1", revokedAt |-> Val(0), lastUsedAt |-> Null]}

\* The Project table when the server starts.
InitialProjects ==
  {[id |-> "p1", userId |-> "u1", name |-> "a"], [id |-> "p2", userId |-> "u2", name |-> "a"]}
ProjectIds == {"p1", "p2"}

(* ------------------------------ state --------------------------------- *)
VARIABLES
  now,             \* the wall clock, in ticks
  projects,        \* table Project
  activeSessions,  \* table ActiveSession
  timeSessions,    \* table TimeSession
  req,             \* the requests: position, inputs, locals, result
  stream,          \* the stream connections: closure variables of the handler
  regVersion,      \* history: per user, the number of committed register writes
  accessTokens,    \* table AccessToken
  pomodoroSettings \* table PomodoroSettings

vars == <<now, projects, activeSessions, timeSessions, req, stream, regVersion,
          accessTokens, pomodoroSettings>>

(* --------------------------- table access ----------------------------- *)
\* A query result that may be absent is a set with at most one row.

FindProjectAnyOwner(table, id, userId) ==
  {p \in table : p.id = id}

\* prisma.project.findFirst({ where: { id, userId } })
FindProject(table, id, userId) ==
  {p \in table : p.id = id /\ p.userId = userId}

\* prisma.activeSession.findUnique({ where: { userId } })
FindActive(table, userId) ==
  LET rows == {a \in table : a.userId = userId}
  IN  IF rows = {} THEN {} ELSE {CHOOSE a \in rows : TRUE}

UniqueViolationOff(table, userId) == FALSE

\* CREATE UNIQUE INDEX "ActiveSession_userId_key": an insert of a second row
\* for the user is refused.
UniqueViolation(table, userId) ==
  \E a \in table : a.userId = userId

\* FOREIGN KEY ("projectId") REFERENCES "Project"("id"): a row that names a
\* project is refused when the project does not exist.
ForeignKeyViolation(table, projectId) ==
  IsVal(projectId) /\ ~(\E p \in table : p.id = Get(projectId))

\* ON DELETE SET NULL, for both ActiveSession and TimeSession.
SetNullOnDelete(table, id) ==
  {IF row.projectId = Val(id) THEN [row EXCEPT !.projectId = Null] ELSE row :
     row \in table}

\* A column the data leaves undefined takes NULL on create.
Column(v) == IF v = Undefined THEN Null ELSE v

\* prisma.activeSession create branch of upsert: the new row.
CreatedRow(data, id) ==
  [id |-> id, userId |-> data.userId, startTime |-> data.startTime,
   mode |-> data.mode, projectId |-> Column(data.projectId),
   description |-> Column(data.description),
   targetSeconds |-> Column(data.targetSeconds),
   pomodoroPhase |-> Column(data.pomodoroPhase),
   pomodoroCycle |-> data.pomodoroCycle]

\* A column the data leaves undefined is not touched on update.
Updated(old, v) == IF v = Undefined THEN old ELSE v

\* prisma.activeSession update branch of upsert: the row after the update.
UpdatedRow(row, data) ==
  [row EXCEPT !.startTime = data.startTime,
              !.mode = data.mode,
              !.projectId = Updated(@, data.projectId),
              !.description = Updated(@, data.description),
              !.targetSeconds = Updated(@, data.targetSeconds),
              !.pomodoroPhase = Updated(@, data.pomodoroPhase),
              !.pomodoroCycle = data.pomodoroCycle]

(* ----------------------- POST /sessions/active ------------------------ *)
\* activeSessionData as the handler builds it from the parsed body.
ActiveSessionData(body, userId) ==
  [startTime |-> body.startTime,
   mode |-> body.mode,
   userId |-> userId,
   pomodoroCycle |-> IF IsVal(body.pomodoroCycle) THEN Get(body.pomodoroCycle) ELSE 0,
   description |->
     IF body.description # Undefined
     THEN (IF Get(body.description) # <<>> /\ Trim(Get(body.description)) # <<>>
           THEN Val(Trim(Get(body.description)))
           ELSE Undefined)
     ELSE Undefined,
   projectId |-> IF IsVal(body.projectId) THEN body.projectId ELSE Null,
   targetSeconds |-> body.targetSeconds,
   pomodoroPhase |-> body.pomodoroPhase]

(* --------------------------- the emitter ------------------------------ *)
\* What a push carries: the active flag, the error flag, the fields of the
\* session (its row) and the elapsed seconds.  The joined project summary
\* is determined by projectId and is left out.
ElapsedSeconds(startTime, t) == (t - startTime) \div TicksPerSec

ActivePayload(row, t) ==
  [active |-> TRUE, error |-> FALSE, session |-> {row},
   elapsedSeconds |-> ElapsedSeconds(row.startTime, t)]

InactivePayload == [active |-> FALSE, error |-> FALSE, session |-> {}, elapsedSeconds |-> 0]

ErrorPayload == [active |-> FALSE, error |-> TRUE, session |-> {}, elapsedSeconds |-> 0]

\* The payload sendCurrentState builds from the value of activeSession.
StatePayload(rows, t) ==
  IF rows # {} THEN ActivePayload(CHOOSE a \in rows : TRUE, t) ELSE InactivePayload

\* sendEvent: res.write; a write on a closed connection delivers nothing and
\* its failure is swallowed.  lastPush, lastCause and firstPush record what
\* was delivered; dropped records that a write failed.
SendEvent(st, payload, cause) ==
  IF st.connClosed
  THEN [st EXCEPT !.dropped = TRUE]
  ELSE [st EXCEPT !.lastPush = {payload},
                  !.lastCause = cause,
                  !.firstPush = IF @ = {} THEN {[payload |-> payload, cause |-> cause]} ELSE @]

ShouldQueryNever(forceQuery, t, lastQueryTime) == FALSE

\* const shouldQuery = forceQuery || (now - lastQueryTime) > QUERY_CACHE_MS
ShouldQuery(forceQuery, t, lastQueryTime) ==
  forceQuery \/ (t - lastQueryTime) * MsPerTick > QUERY_CACHE_MS

\* sendCurrentState up to its first await: either the query is issued (a
\* read in flight, which remembers Date.now() of the call), or the cached
\* value is pushed at once.
SendCurrentState(st, forceQuery, cause, minVer) ==
  IF ShouldQuery(forceQuery, now, st.lastQueryTime)
  THEN [st EXCEPT !.reads = Append(@, [at |-> now, st |-> "issued", rows |-> {},
                                       cause |-> cause, minVer |-> minVer, ver |-> 0,
                                       seq |-> st.issued + 1]),
                  !.issued = @ + 1]
  ELSE SendEvent(st, StatePayload(st.cachedState, now), cause)

OnChangeHandlerUnfiltered(st, changedUserId, minVer) ==
  SendCurrentState(st, TRUE, "event", minVer)

\* onChangeHandler of one connection.
OnChangeHandler(st, changedUserId, minVer) ==
  IF changedUserId = st.user THEN SendCurrentState(st, TRUE, "event", minVer) ELSE st

NotifyStopsAtClosed(strm, userId, minVer) ==
  [s \in DOMAIN strm |->
     IF /\ strm[s].subscribed
        /\ ~(\E o \in DOMAIN strm : o < s /\ strm[o].subscribed /\ strm[o].connClosed)
     THEN OnChangeHandler(strm[s], userId, minVer)
     ELSE strm[s]]

\* notifyActiveSessionChange: emit('activeSessionChange', userId) calls, in
\* the same turn, the handler of every connection that has one registered.
NotifyActiveSessionChange(strm, userId, minVer) ==
  [s \in DOMAIN strm |->
     IF strm[s].subscribed THEN OnChangeHandler(strm[s], userId, minVer) ELSE strm[s]]

(* ----------------------------- requests ------------------------------- *)
IdleReq ==
  [pc |-> "idle", kind |-> "none", user |-> "u1", body |-> {}, pid |-> "p1", sid |-> 0,
   tok |-> "", key |-> "", tid |-> "", data |-> {}, fromDate |-> 0, toDate |-> 0,
   found |-> FALSE, snap |-> {}, endTime |-> 0, duration |-> 0, tx |-> {},
   result |-> "none", wrote |-> FALSE, notified |-> 0, ver |-> 0]

\* Requests are taken in the order of their numbers.
NextToArrive(r) == req[r].pc = "idle" /\ (IF r = 1 THEN TRUE ELSE req[r - 1].pc # "idle")

\* The request is answered: its locals are dropped.
Respond(rq, result) ==
  [rq EXCEPT !.pc = "done", !.result = result, !.found = FALSE, !.snap = {},
             !.endTime = 0, !.tx = {}, !.ver = 0]

BodyOf(r) == CHOOSE b \in req[r].body : TRUE

\* POST /sessions/active arrives; activeSessionSchema.parse(req.body).
ReqStart(r, u, b) ==
  /\ NextToArrive(r)
  /\ req' = [req EXCEPT ![r] = [@ EXCEPT !.kind = "start", !.user = u, !.body = {b},
                                         !.pc = IF IsVal(b.projectId)
                                                THEN "checkProject" ELSE "upsertFind"]]
  /\ UNCHANGED <<now, accessTokens, pomodoroSettings, projects, activeSessions, timeSessions, stream, regVersion>>

\* A request body as it arrives, before activeSessionSchema: startTime is
\* Val(t) for an ISO datetime string of tick t, Undefined when missing and
\* <<"malformed">> for any other value.
Raw(b) == [b EXCEPT !.startTime = Val(@)]

Modes == {"stopwatch", "timer", "pomodoro"}
Phases == {"work", "shortBreak", "longBreak"}

BadModeBody == [Raw(MinimalBody) EXCEPT !.mode = "countdown"]
BadPhaseBody == [Raw(MinimalBody) EXCEPT !.pomodoroPhase = Val("rest")]
NegativeCycleBody == [Raw(MinimalBody) EXCEPT !.pomodoroCycle = Val(-1)]
NegativeTargetBody == [Raw(MinimalBody) EXCEPT !.targetSeconds = Val(-1)]
MissingStartBody == [Raw(MinimalBody) EXCEPT !.startTime = Undefined]
MalformedStartBody == [Raw(MinimalBody) EXCEPT !.startTime = <<"malformed">>]
MalformedBodies ==
  {BadModeBody, BadPhaseBody, NegativeCycleBody, NegativeTargetBody, MissingStartBody,
   MalformedStartBody}

ActiveSessionSchemaAnyMode(raw) ==
  /\ IsVal(raw.startTime)
  /\ raw.projectId \in {Undefined, Null} \/ Get(raw.projectId) # ""
  /\ raw.description # Null
  /\ raw.targetSeconds \in {Undefined, Null} \/ Get(raw.targetSeconds) >= 0
  /\ raw.pomodoroPhase \in {Undefined, Null} \/ Get(raw.pomodoroPhase) \in Phases
  /\ raw.pomodoroCycle # Null
  /\ raw.pomodoroCycle = Undefined \/ Get(raw.pomodoroCycle) >= 0

\* activeSessionSchema: whether parse accepts the body.
ActiveSessionSchema(raw) ==
  /\ IsVal(raw.startTime)
  /\ raw.mode \in Modes
  /\ raw.projectId \in {Undefined, Null} \/ Get(raw.projectId) # ""
  /\ raw.description # Null
  /\ raw.targetSeconds \in {Undefined, Null} \/ Get(raw.targetSeconds) >= 0
  /\ raw.pomodoroPhase \in {Undefined, Null} \/ Get(raw.pomodoroPhase) \in Phases
  /\ raw.pomodoroCycle # Null
  /\ raw.pomodoroCycle = Undefined \/ Get(raw.pomodoroCycle) >= 0

\* POST /sessions/active arrives with any body: activeSessionSchema.parse
\* throws a ZodError on a body it rejects, which the catch answers with 400
\* 'Dados inválidos'; else the handler goes on with the parsed body.
ReqStartRaw(r, u, raw) ==
  IF ActiveSessionSchema(raw)
  THEN ReqStart(r, u, [raw EXCEPT !.startTime = Get(@)])
  ELSE /\ NextToArrive(r)
       /\ req' = [req EXCEPT ![r] =
            Respond([@ EXCEPT !.kind = "start", !.user = u], "ValidationError")]
       /\ UNCHANGED <<now, accessTokens, pomodoroSettings, projects, activeSessions,
                      timeSessions, stream, regVersion>>

StartCheckProjectPublishing(r) ==
  /\ req[r].pc = "checkProject"
  /\ LET missing == FindProject(projects, Get(BodyOf(r).projectId), req[r].user) = {}
     IN  /\ req' = [req EXCEPT ![r] =
               IF missing
               THEN Respond([@ EXCEPT !.notified = @ + 1], "ProjectNotFound")
               ELSE [@ EXCEPT !.pc = "upsertFind"]]
         /\ stream' = IF missing
                      THEN NotifyActiveSessionChange(stream, req[r].user, 0)
                      ELSE stream
  /\ UNCHANGED <<now, accessTokens, pomodoroSettings, projects, activeSessions,
                 timeSessions, regVersion>>

\* if (body.projectId) { project = await prisma.project.findFirst(...) }
StartCheckProject(r) ==
  /\ req[r].pc = "checkProject"
  /\ req' = [req EXCEPT ![r] =
       IF FindProject(projects, Get(BodyOf(r).projectId), @.user) = {}
       THEN Respond(@, "ProjectNotFound")
       ELSE [@ EXCEPT !.pc = "upsertFind"]]
  /\ UNCHANGED <<now, accessTokens, pomodoroSettings, projects, activeSessions, timeSessions, stream, regVersion>>

\* prisma.activeSession.upsert, first half: the lookup by { userId }.
UpsertFind(r) ==
  /\ req[r].pc = "upsertFind"
  /\ req' = [req EXCEPT ![r] = [@ EXCEPT !.pc = "upsertWrite",
                                         !.found = FindActive(activeSessions, req[r].user) # {}]]
  /\ UNCHANGED <<now, accessTokens, pomodoroSettings, projects, activeSessions, timeSessions, stream, regVersion>>

\* prisma.activeSession.upsert, second half: the update of the row found or
\* the insert of a new one.  The write fails (the handler answers 500) when
\* the row found is gone, when the unique index refuses the insert, or when
\* the project named no longer exists.
UpsertWrite(r) ==
  /\ req[r].pc = "upsertWrite"
  /\ LET u == req[r].user
         data == ActiveSessionData(BodyOf(r), u)
         cur == FindActive(activeSessions, u)
         fails == \/ ForeignKeyViolation(projects, data.projectId)
                  \/ req[r].found /\ cur = {}
                  \/ ~req[r].found /\ UniqueViolation(activeSessions, u)
     IN  IF fails
         THEN /\ req' = [req EXCEPT ![r] = Respond(@, "InternalError")]
              /\ UNCHANGED <<activeSessions, regVersion>>
         ELSE /\ activeSessions' =
                   IF req[r].found
                   THEN (activeSessions \ cur) \cup {UpdatedRow(CHOOSE a \in cur : TRUE, data)}
                   ELSE activeSessions \cup {CreatedRow(data, r)}
              /\ regVersion' = [regVersion EXCEPT ![u] = @ + 1]
              /\ req' = [req EXCEPT ![r] = [@ EXCEPT !.pc = "notify", !.found = FALSE,
                                                     !.wrote = TRUE,
                                                     !.ver = regVersion[u] + 1]]
  /\ UNCHANGED <<now, accessTokens, pomodoroSettings, projects, timeSessions, stream>>

StartNotifyEarly(r) ==
  /\ req[r].pc = "upsertFind"
  /\ req[r].kind = "start"
  /\ req[r].notified = 0
  /\ stream' = NotifyActiveSessionChange(stream, req[r].user, req[r].ver)
  /\ req' = [req EXCEPT ![r] = [@ EXCEPT !.notified = @ + 1]]
  /\ UNCHANGED <<now, accessTokens, pomodoroSettings, projects, activeSessions, timeSessions, regVersion>>

\* After the upsert: activeSessionEmitter.notifyActiveSessionChange(userId);
\* res.json({ data: activeSession }).
StartNotify(r) ==
  /\ req[r].pc = "notify"
  /\ req[r].kind = "start"
  /\ stream' = NotifyActiveSessionChange(stream, req[r].user, req[r].ver)
  /\ req' = [req EXCEPT ![r] = Respond([@ EXCEPT !.notified = @ + 1], "ok")]
  /\ UNCHANGED <<now, accessTokens, pomodoroSettings, projects, activeSessions, timeSessions, regVersion>>

(* ---------------------- DELETE /sessions/active ---------------------- *)
\* DELETE /sessions/active arrives.
ReqStop(r, u) ==
  /\ NextToArrive(r)
  /\ req' = [req EXCEPT ![r] = [@ EXCEPT !.kind = "stop", !.user = u, !.pc = "stopRead"]]
  /\ UNCHANGED <<now, accessTokens, pomodoroSettings, projects, activeSessions, timeSessions, stream, regVersion>>

\* const duration = Math.floor((endTime.getTime() - startTime.getTime()) / 1000)
Duration(startTime, endTime) == (endTime - startTime) \div TicksPerSec

StopReadPublishing(r) ==
  /\ req[r].pc = "stopRead"
  /\ LET snap == FindActive(activeSessions, req[r].user)
     IN  /\ req' = [req EXCEPT ![r] =
               IF snap = {}
               THEN Respond([@ EXCEPT !.notified = @ + 1], "NoActiveSession")
               ELSE LET d == Duration((CHOOSE a \in snap : TRUE).startTime, now)
                    IN  [@ EXCEPT !.snap = snap, !.endTime = now, !.duration = d,
                                  !.pc = IF d <= 0 THEN "discard" ELSE "txCreate"]]
         /\ stream' = IF snap = {}
                      THEN NotifyActiveSessionChange(stream, req[r].user, 0)
                      ELSE stream
  /\ UNCHANGED <<now, accessTokens, pomodoroSettings, projects, activeSessions, timeSessions, regVersion>>

\* activeSession = await prisma.activeSession.findUnique(...); 404 when there
\* is none; then endTime = new Date() and the duration.
StopRead(r) ==
  /\ req[r].pc = "stopRead"
  /\ LET snap == FindActive(activeSessions, req[r].user)
     IN  req' = [req EXCEPT ![r] =
           IF snap = {}
           THEN Respond(@, "NoActiveSession")
           ELSE LET d == Duration((CHOOSE a \in snap : TRUE).startTime, now)
                IN  [@ EXCEPT !.snap = snap, !.endTime = now, !.duration = d,
                              !.pc = IF d <= 0 THEN "discard" ELSE "txCreate"]]
  /\ UNCHANGED <<now, accessTokens, pomodoroSettings, projects, activeSessions, timeSessions, stream, regVersion>>

\* if (duration <= 0) { await prisma.activeSession.delete({ where: { userId } });
\* return res.status(400) }.  delete throws when there is no row (500).
StopDiscard(r) ==
  /\ req[r].pc = "discard"
  /\ LET u == req[r].user
         cur == FindActive(activeSessions, u)
     IN  IF cur = {}
         THEN /\ req' = [req EXCEPT ![r] = Respond(@, "InternalError")]
              /\ UNCHANGED <<activeSessions, regVersion>>
         ELSE /\ activeSessions' = activeSessions \ cur
              /\ regVersion' = [regVersion EXCEPT ![u] = @ + 1]
              /\ req' = [req EXCEPT ![r] =
                   Respond([@ EXCEPT !.wrote = TRUE, !.ver = regVersion[u] + 1],
                           "InvalidDuration")]
  /\ UNCHANGED <<now, accessTokens, pomodoroSettings, projects, timeSessions, stream>>

\* sessionData as the handler builds it from the session it read.
SessionData(activeSession, endTime, duration, userId, id) ==
  [id |-> id,
   userId |-> userId,
   startTime |-> activeSession.startTime,
   endTime |-> endTime,
   durationSeconds |-> duration,
   mode |-> activeSession.mode,
   projectId |-> IF IsVal(activeSession.projectId) THEN activeSession.projectId ELSE Null,
   description |->
     IF IsVal(activeSession.description) /\ Get(activeSession.description) # <<>>
        /\ Trim(Get(activeSession.description)) # <<>>
     THEN Val(Trim(Get(activeSession.description)))
     ELSE Null]

\* prisma.$transaction, first statement: tx.timeSession.create.  The row is
\* written inside the transaction (req[r].tx) and is not in the table before
\* the commit.  A violated foreign key throws, which rolls back.
StopTxCreate(r) ==
  /\ req[r].pc = "txCreate"
  /\ LET rq == req[r]
         row == SessionData(CHOOSE a \in rq.snap : TRUE, rq.endTime, rq.duration, rq.user, r)
     IN  req' = [req EXCEPT ![r] =
           IF ForeignKeyViolation(projects, row.projectId)
           THEN Respond(@, "InternalError")
           ELSE [@ EXCEPT !.tx = {row}, !.pc = "txDelete"]]
  /\ UNCHANGED <<now, accessTokens, pomodoroSettings, projects, activeSessions, timeSessions, stream, regVersion>>

TxRollbackKeepsCreate(table, written) == table \cup written

\* The transaction throws: what it wrote is discarded.
TxRollback(table, written) == table

\* The transaction commits: what it wrote is in the table.
TxCommit(table, written) == table \cup written

StopTxDeleteLenient(r) ==
  /\ req[r].pc = "txDelete"
  /\ LET u == req[r].user
         cur == FindActive(activeSessions, u)
     IN  /\ timeSessions' = TxCommit(timeSessions, req[r].tx)
         /\ activeSessions' = activeSessions \ cur
         /\ regVersion' = [regVersion EXCEPT ![u] = @ + 1]
         /\ req' = [req EXCEPT ![r] = [@ EXCEPT !.pc = "notify", !.tx = {}, !.snap = {},
                                                !.wrote = TRUE,
                                                !.ver = regVersion[u] + 1]]
  /\ UNCHANGED <<now, accessTokens, pomodoroSettings, projects, stream>>

\* prisma.$transaction, second statement: tx.activeSession.delete, which
\* throws when there is no row; the callback returns and the transaction
\* commits, or the throw rolls it back (500).
StopTxDelete(r) ==
  /\ req[r].pc = "txDelete"
  /\ LET u == req[r].user
         cur == FindActive(activeSessions, u)
     IN  IF cur = {}
         THEN /\ timeSessions' = TxRollback(timeSessions, req[r].tx)
              /\ req' = [req EXCEPT ![r] = Respond(@, "InternalError")]
              /\ UNCHANGED <<activeSessions, regVersion>>
         ELSE /\ timeSessions' = TxCommit(timeSessions, req[r].tx)
              /\ activeSessions' = activeSessions \ cur
              /\ regVersion' = [regVersion EXCEPT ![u] = @ + 1]
              /\ req' = [req EXCEPT ![r] = [@ EXCEPT !.pc = "notify", !.tx = {}, !.snap = {},
                                                     !.wrote = TRUE,
                                                     !.ver = regVersion[u] + 1]]
  /\ UNCHANGED <<now, accessTokens, pomodoroSettings, projects, stream>>

\* After the transaction: activeSessionEmitter.notifyActiveSessionChange(userId);
\* res.json({ data: result }).
StopNotify(r) ==
  /\ req[r].pc = "notify"
  /\ req[r].kind = "stop"
  /\ stream' = NotifyActiveSessionChange(stream, req[r].user, req[r].ver)
  /\ req' = [req EXCEPT ![r] = Respond([@ EXCEPT !.notified = @ + 1], "ok")]
  /\ UNCHANGED <<now, accessTokens, pomodoroSettings, projects, activeSessions, timeSessions, regVersion>>

(* ------------------------ DELETE /projects/:id ------------------------ *)
\* DELETE /projects/:id arrives.
ReqDeleteProject(r, u, id) ==
  /\ NextToArrive(r)
  /\ req' = [req EXCEPT ![r] = [@ EXCEPT !.kind = "deleteProject", !.user = u, !.pid = id,
                                         !.pc = "projectFind"]]
  /\ UNCHANGED <<now, accessTokens, pomodoroSettings, projects, activeSessions, timeSessions, stream, regVersion>>

\* existing = await prisma.project.findFirst({ where: { id, userId } }); 404.
ProjectFind(r) ==
  /\ req[r].pc = "projectFind"
  /\ req' = [req EXCEPT ![r] =
       IF FindProject(projects, @.pid, @.user) = {}
       THEN Respond(@, "NotFound")
       ELSE [@ EXCEPT !.pc = "projectCount"]]
  /\ UNCHANGED <<now, accessTokens, pomodoroSettings, projects, activeSessions, timeSessions, stream, regVersion>>

\* prisma.timeSession.count({ where: { projectId: id, userId } })
SessionsCount(table, id, userId) ==
  Cardinality({t \in table : t.projectId = Val(id) /\ t.userId = userId})

\* sessionsCount = await prisma.timeSession.count(...); 400 when > 0.
ProjectCount(r) ==
  /\ req[r].pc = "projectCount"
  /\ req' = [req EXCEPT ![r] =
       IF SessionsCount(timeSessions, @.pid, @.user) > 0
       THEN Respond(@, "Conflict")
       ELSE [@ EXCEPT !.pc = "projectDelete"]]
  /\ UNCHANGED <<now, accessTokens, pomodoroSettings, projects, activeSessions, timeSessions, stream, regVersion>>

\* A transaction that wrote a row naming the project holds a lock on it
\* until it ends: the delete waits.
ProjectLocked(id) ==
  \E q \in Reqs : \E t \in req[q].tx : t.projectId = Val(id)

\* await prisma.project.delete({ where: { id } }): throws when the project
\* is gone (the handler has no try/catch: the rejection is not handled); the
\* foreign keys set projectId to NULL in the rows that name it.
ProjectDelete(r) ==
  /\ req[r].pc = "projectDelete"
  /\ ~ProjectLocked(req[r].pid)
  /\ LET id == req[r].pid
     IN  IF \E p \in projects : p.id = id
         THEN /\ projects' = {p \in projects : p.id # id}
              /\ activeSessions' = SetNullOnDelete(activeSessions, id)
              /\ timeSessions' = SetNullOnDelete(timeSessions, id)
              /\ req' = [req EXCEPT ![r] = Respond(@, "ok")]
         ELSE /\ req' = [req EXCEPT ![r] = Respond(@, "Unhandled")]
              /\ UNCHANGED <<projects, activeSessions, timeSessions>>
  /\ UNCHANGED <<now, accessTokens, pomodoroSettings, stream, regVersion>>

(* ----------------------------- authToken ------------------------------ *)
\* The tokens a request may present: those of the table when the server
\* starts, one that no row has, and none at all ("").
PresentedTokens == {"t1", "t2", "t0", "tx", ""}
TokenIds == {"k1", "k2", "k0"}

FindAccessTokenAnyState(table, token) ==
  {t \in table : t.token = token}

\* prisma.accessToken.findFirst({ where: { token, revokedAt: null } })
FindAccessToken(table, token) ==
  {t \in table : t.token = token /\ t.revokedAt = Null}

\* The first state of the handler of a route, which next() enters.
HandlerEntry(kind) ==
  CASE kind = "deleteToken" -> "tokenFind"
    [] kind = "createToken" -> "tokenCreate"
    [] kind = "getSettings" -> "settingsFind"
    [] kind = "putSettings" -> "settingsUpsert"

\* A request for an account route arrives, presenting a token (or none: 401
\* 'Token ausente' at once).  tid is the :id of DELETE /tokens/:id and b the
\* body of PUT /settings/pomodoro.
ReqArrive(r, kind, token, tid, b) ==
  /\ NextToArrive(r)
  /\ req' = [req EXCEPT ![r] =
       IF token = ""
       THEN Respond([@ EXCEPT !.kind = kind], "Unauthenticated")
       ELSE [@ EXCEPT !.kind = kind, !.tok = token, !.tid = tid, !.body = b,
                      !.pc = "authFind"]]
  /\ UNCHANGED <<now, accessTokens, pomodoroSettings, projects, activeSessions,
                 timeSessions, stream, regVersion>>

\* accessToken = await prisma.accessToken.findFirst(...); 401 'Token
\* inválido' when there is none; else req.userId = accessToken.userId.
AuthFind(r) ==
  /\ req[r].pc = "authFind"
  /\ LET accessToken == FindAccessToken(accessTokens, req[r].tok)
     IN  req' = [req EXCEPT ![r] =
           IF accessToken = {}
           THEN Respond(@, "Unauthenticated")
           ELSE LET t == CHOOSE t \in accessToken : TRUE
                IN  [@ EXCEPT !.user = t.userId, !.key = t.id, !.pc = "authTouch"]]
  /\ UNCHANGED <<now, accessTokens, pomodoroSettings, projects, activeSessions,
                 timeSessions, stream, regVersion>>

\* await prisma.accessToken.update({ where: { id }, data: { lastUsedAt } });
\* next().  The update throws when the row is gone: 500 'Erro de
\* autenticação'.
AuthTouch(r) ==
  /\ req[r].pc = "authTouch"
  /\ LET cur == {t \in accessTokens : t.id = req[r].key}
     IN  IF cur = {}
         THEN /\ req' = [req EXCEPT ![r] = Respond(@, "AuthError")]
              /\ UNCHANGED accessTokens
         ELSE /\ accessTokens' =
                   (accessTokens \ cur) \cup
                     {[t EXCEPT !.lastUsedAt = Val(now)] : t \in cur}
              /\ req' = [req EXCEPT ![r].pc = HandlerEntry(req[r].kind)]
  /\ UNCHANGED <<now, pomodoroSettings, projects, activeSessions, timeSessions,
                 stream, regVersion>>

(* ------------------------------ /tokens ------------------------------- *)
\* token = await prisma.accessToken.findFirst({ where: { id, userId } }); 404.
TokenFind(r) ==
  /\ req[r].pc = "tokenFind"
  /\ req' = [req EXCEPT ![r] =
       IF {t \in accessTokens : t.id = @.tid /\ t.userId = @.user} = {}
       THEN Respond(@, "NotFound")
       ELSE [@ EXCEPT !.pc = "tokenDelete"]]
  /\ UNCHANGED <<now, accessTokens, pomodoroSettings, projects, activeSessions,
                 timeSessions, stream, regVersion>>

\* await prisma.accessToken.delete({ where: { id } }); 204.  It throws when
\* the row is gone (500).
TokenDelete(r) ==
  /\ req[r].pc = "tokenDelete"
  /\ LET cur == {t \in accessTokens : t.id = req[r].tid}
     IN  IF cur = {}
         THEN /\ req' = [req EXCEPT ![r] = Respond(@, "InternalError")]
              /\ UNCHANGED accessTokens
         ELSE /\ accessTokens' = accessTokens \ cur
              /\ req' = [req EXCEPT ![r] = Respond([@ EXCEPT !.wrote = TRUE], "ok")]
  /\ UNCHANGED <<now, pomodoroSettings, projects, activeSessions, timeSessions,
                 stream, regVersion>>

\* token = randomBytes(32).toString('hex'); prisma.accessToken.create: a new
\* row with a token no other row has; 201.
TokenCreate(r) ==
  /\ req[r].pc = "tokenCreate"
  /\ accessTokens' = accessTokens \cup
       {[id |-> ToString(r), token |-> ToString(r), userId |-> req[r].user,
         revokedAt |-> Null, lastUsedAt |-> Null]}
  /\ req' = [req EXCEPT ![r] = Respond([@ EXCEPT !.wrote = TRUE], "ok")]
  /\ UNCHANGED <<now, pomodoroSettings, projects, activeSessions, timeSessions,
                 stream, regVersion>>

\* DELETE /tokens/:id of a request that authToken has let through as user u.
ReqDeleteToken(r, u, id) ==
  /\ NextToArrive(r)
  /\ req' = [req EXCEPT ![r] = [@ EXCEPT !.kind = "deleteToken", !.user = u, !.tid = id,
                                         !.pc = "tokenFind"]]
  /\ UNCHANGED <<now, accessTokens, pomodoroSettings, projects, activeSessions,
                 timeSessions, stream, regVersion>>

(* ------------------------- /settings/pomodoro ------------------------- *)
SettingsFields ==
  {"workMinutes", "shortBreakMinutes", "longBreakMinutes", "longBreakInterval",
   "autoStartBreak"}

\* The values GET /settings/pomodoro creates the row with; they are also
\* the defaults of pomodoroSettingsSchema.
SettingsDefaults ==
  [workMinutes |-> 25, shortBreakMinutes |-> 5, longBreakMinutes |-> 15,
   longBreakInterval |-> 4, autoStartBreak |-> FALSE]

\* Bodies of PUT /settings/pomodoro: every field optional.
EmptySettingsBody == [f \in SettingsFields |-> Undefined]
CustomSettingsBody ==
  [EmptySettingsBody EXCEPT !.workMinutes = Val(50), !.autoStartBreak = Val(TRUE)]
BadSettingsBody == [EmptySettingsBody EXCEPT !.workMinutes = Val(0)]
SettingsBodies == {EmptySettingsBody, CustomSettingsBody, BadSettingsBody}

\* z.number().int().positive() / z.boolean(), each with a default.
SettingsFieldOk(f, v) ==
  \/ v = Undefined
  \/ /\ v # Null
     /\ IF f = "autoStartBreak" THEN v[2] \in BOOLEAN ELSE v[2] \in Nat \ {0}

\* pomodoroSettingsSchema.parse(body): no result when a field is invalid,
\* else the body with the defaults filled in.
PomodoroSettingsParse(b) ==
  IF \A f \in SettingsFields : SettingsFieldOk(f, b[f])
  THEN {[f \in SettingsFields |-> IF b[f] = Undefined THEN SettingsDefaults[f] ELSE b[f][2]]}
  ELSE {}

SettingsRow(userId, values) ==
  [userId |-> userId, workMinutes |-> values.workMinutes,
   shortBreakMinutes |-> values.shortBreakMinutes,
   longBreakMinutes |-> values.longBreakMinutes,
   longBreakInterval |-> values.longBreakInterval,
   autoStartBreak |-> values.autoStartBreak]

\* The unique index PomodoroSettings_userId_key.
SettingsUniqueOff(table, userId) == FALSE

SettingsUniqueViolation(table, userId) == \E x \in table : x.userId = userId

\* GET: settings = await prisma.pomodoroSettings.findUnique({ where: { userId } });
\* answered with the row when there is one.
SettingsFind(r) ==
  /\ req[r].pc = "settingsFind"
  /\ LET settings == {x \in pomodoroSettings : x.userId = req[r].user}
     IN  req' = [req EXCEPT ![r] =
           IF settings = {}
           THEN [@ EXCEPT !.pc = "settingsCreate"]
           ELSE Respond([@ EXCEPT !.data = settings], "ok")]
  /\ UNCHANGED <<now, accessTokens, pomodoroSettings, projects, activeSessions,
                 timeSessions, stream, regVersion>>

\* GET, no row found: settings = await prisma.pomodoroSettings.create(...)
\* with the defaults.  The insert fails on the unique index when a row of
\* the user has appeared since the lookup; next(error) answers 500.
SettingsCreate(r) ==
  /\ req[r].pc = "settingsCreate"
  /\ IF SettingsUniqueViolation(pomodoroSettings, req[r].user)
     THEN /\ req' = [req EXCEPT ![r] = Respond(@, "InternalError")]
          /\ UNCHANGED pomodoroSettings
     ELSE LET row == SettingsRow(req[r].user, SettingsDefaults)
          IN  /\ pomodoroSettings' = pomodoroSettings \cup {row}
              /\ req' = [req EXCEPT ![r] =
                   Respond([@ EXCEPT !.data = {row}, !.wrote = TRUE], "ok")]
  /\ UNCHANGED <<now, accessTokens, projects, activeSessions, timeSessions,
                 stream, regVersion>>

\* PUT: body = pomodoroSettingsSchema.parse(req.body) (400 on a ZodError);
\* prisma.pomodoroSettings.upsert({ where: { userId }, update: body,
\* create: { userId, ...body } }), which the database runs as one
\* INSERT ... ON CONFLICT DO UPDATE.
SettingsUpsert(r) ==
  /\ req[r].pc = "settingsUpsert"
  /\ LET parsed == PomodoroSettingsParse(CHOOSE b \in req[r].body : TRUE)
     IN  IF parsed = {}
         THEN /\ req' = [req EXCEPT ![r] = Respond(@, "ValidationError")]
              /\ UNCHANGED pomodoroSettings
         ELSE LET row == SettingsRow(req[r].user, CHOOSE v \in parsed : TRUE)
              IN  /\ pomodoroSettings' =
                       {x \in pomodoroSettings : x.userId # req[r].user} \cup {row}
                  /\ req' = [req EXCEPT ![r] =
                       Respond([@ EXCEPT !.data = {row}, !.wrote = TRUE], "ok")]
  /\ UNCHANGED <<now, accessTokens, projects, activeSessions, timeSessions,
                 stream, regVersion>>

(* --------------------------- POST /projects --------------------------- *)
\* The id of a row a request creates: ids are generated and never repeat.
NewProjectId(r) == ToString(r)

\* POST /projects arrives with a valid body.
ReqCreateProject(r, u) ==
  /\ NextToArrive(r)
  /\ req' = [req EXCEPT ![r] = [@ EXCEPT !.kind = "createProject", !.user = u,
                                         !.pc = "projectCreate"]]
  /\ UNCHANGED <<now, accessTokens, pomodoroSettings, projects, activeSessions, timeSessions, stream, regVersion>>

\* project = await prisma.project.create({ data: { ...parse.data, userId } })
ProjectCreate(r) ==
  /\ req[r].pc = "projectCreate"
  /\ projects' = projects \cup {[id |-> NewProjectId(r), userId |-> req[r].user, name |-> "a"]}
  /\ req' = [req EXCEPT ![r] = Respond(@, "ok")]
  /\ UNCHANGED <<now, accessTokens, pomodoroSettings, activeSessions, timeSessions, stream, regVersion>>

(* --------------------------- POST /sessions --------------------------- *)
\* Bodies of POST /sessions that pass createSessionSchema: the duration the
\* caller supplies may or may not be that of the times it supplies.
ConsistentCreate ==
  [projectId |-> Val("p1"), description |-> Val(<<"a">>), startTime |-> Epoch - 1,
   endTime |-> Epoch + 1, durationSeconds |-> 1, mode |-> "stopwatch"]

InconsistentCreate ==
  [projectId |-> Null, description |-> Undefined, startTime |-> Epoch - 1,
   endTime |-> Epoch + 1, durationSeconds |-> 0, mode |-> "timer"]

CreateBodies == {ConsistentCreate, InconsistentCreate}

\* POST /sessions arrives; createSessionSchema.parse(req.body).
ReqCreateSession(r, u, b) ==
  /\ NextToArrive(r)
  /\ req' = [req EXCEPT ![r] = [@ EXCEPT !.kind = "createSession", !.user = u, !.body = {b},
                                         !.pc = IF IsVal(b.projectId)
                                                THEN "createCheckProject" ELSE "createSession"]]
  /\ UNCHANGED <<now, accessTokens, pomodoroSettings, projects, activeSessions, timeSessions, stream, regVersion>>

\* if (body.projectId) { project = await prisma.project.findFirst(...) }; 404.
CreateCheckProject(r) ==
  /\ req[r].pc = "createCheckProject"
  /\ req' = [req EXCEPT ![r] =
       IF FindProject(projects, Get(BodyOf(r).projectId), @.user) = {}
       THEN Respond(@, "ProjectNotFound")
       ELSE [@ EXCEPT !.pc = "createSession"]]
  /\ UNCHANGED <<now, accessTokens, pomodoroSettings, projects, activeSessions, timeSessions, stream, regVersion>>

\* sessionData of POST /sessions, as a row of TimeSession.
CreateSessionData(body, userId, id) ==
  [id |-> id,
   userId |-> userId,
   startTime |-> body.startTime,
   endTime |-> body.endTime,
   durationSeconds |-> body.durationSeconds,
   mode |-> body.mode,
   projectId |-> IF IsVal(body.projectId) THEN body.projectId ELSE Null,
   description |-> Column(body.description)]

\* session = await prisma.timeSession.create({ data: sessionData }); 201.
CreateSession(r) ==
  /\ req[r].pc = "createSession"
  /\ LET row == CreateSessionData(BodyOf(r), req[r].user, r)
     IN  IF ForeignKeyViolation(projects, row.projectId)
         THEN /\ req' = [req EXCEPT ![r] = Respond(@, "InternalError")]
              /\ UNCHANGED timeSessions
         ELSE /\ timeSessions' = timeSessions \cup {row}
              /\ req' = [req EXCEPT ![r] = Respond([@ EXCEPT !.wrote = TRUE], "ok")]
  /\ UNCHANGED <<now, accessTokens, pomodoroSettings, projects, activeSessions, stream, regVersion>>

(* ------------------------- PATCH /sessions/:id ------------------------ *)
\* Bodies of PATCH /sessions/:id that pass updateSessionSchema, with dates
\* that parse.
PatchStart ==
  [description |-> Undefined, projectId |-> Undefined, startTime |-> Val(Epoch + 1),
   endTime |-> Undefined]

PatchEnd ==
  [description |-> Val(<<" ">>), projectId |-> Null, startTime |-> Undefined,
   endTime |-> Val(Epoch + 3)]

PatchProject ==
  [description |-> Undefined, projectId |-> Val("p1"), startTime |-> Undefined,
   endTime |-> Undefined]

PatchEarlyEnd ==
  [description |-> Undefined, projectId |-> Undefined, startTime |-> Undefined,
   endTime |-> Val(Epoch - 3)]

PatchBodies == {PatchStart, PatchEnd, PatchProject, PatchEarlyEnd}

FindSessionAnyOwner(table, id, userId) ==
  {t \in table : t.id = id}

\* prisma.timeSession.findFirst({ where: { id, userId } })
FindSession(table, id, userId) ==
  {t \in table : t.id = id /\ t.userId = userId}

\* newStartTime, newEndTime: the body's when given, else the existing ones.
NewTime(given, existing) == IF IsVal(given) THEN Get(given) ELSE existing

\* updateData as the handler builds it from the body and existingSession.
UpdateData(body, existingSession) ==
  [description |-> body.description,
   projectId |-> IF body.projectId = Undefined THEN Undefined
                 ELSE IF IsVal(body.projectId) THEN body.projectId ELSE Null,
   startTime |-> body.startTime,
   endTime |-> body.endTime,
   durationSeconds |->
     IF IsVal(body.startTime) \/ IsVal(body.endTime)
     THEN Val(Duration(NewTime(body.startTime, existingSession.startTime),
                       NewTime(body.endTime, existingSession.endTime)))
     ELSE Undefined]

\* prisma.timeSession.update: the row after the update; a field the data
\* leaves undefined is not touched.
UpdatedSession(row, data) ==
  [row EXCEPT !.description = Updated(@, data.description),
              !.projectId = Updated(@, data.projectId),
              !.startTime = NewTime(data.startTime, @),
              !.endTime = NewTime(data.endTime, @),
              !.durationSeconds = NewTime(data.durationSeconds, @)]

\* The handler after existingSession and the project are checked: 400 when
\* the recomputed duration is negative, else on to the update.
PatchPrepare(rq, existingSession) ==
  LET data == UpdateData(CHOOSE b \in rq.body : TRUE, existingSession)
  IN  IF IsVal(data.durationSeconds) /\ Get(data.durationSeconds) < 0
      THEN Respond(rq, "ValidationError")
      ELSE [rq EXCEPT !.snap = {existingSession}, !.pc = "patchUpdate"]

\* PATCH /sessions/:id arrives; updateSessionSchema.parse(req.body).
ReqPatchSession(r, u, id, b) ==
  /\ NextToArrive(r)
  /\ req' = [req EXCEPT ![r] = [@ EXCEPT !.kind = "patchSession", !.user = u, !.sid = id,
                                         !.body = {b}, !.pc = "patchFind"]]
  /\ UNCHANGED <<now, accessTokens, pomodoroSettings, projects, activeSessions, timeSessions, stream, regVersion>>

\* existingSession = await prisma.timeSession.findFirst(...); 404 when there
\* is none.
PatchFind(r) ==
  /\ req[r].pc = "patchFind"
  /\ LET existing == FindSession(timeSessions, req[r].sid, req[r].user)
     IN  req' = [req EXCEPT ![r] =
           IF existing = {}
           THEN Respond(@, "NotFound")
           ELSE IF IsVal(BodyOf(r).projectId)
                THEN [@ EXCEPT !.snap = existing, !.pc = "patchCheckProject"]
                ELSE PatchPrepare(@, CHOOSE t \in existing : TRUE)]
  /\ UNCHANGED <<now, accessTokens, pomodoroSettings, projects, activeSessions, timeSessions, stream, regVersion>>

\* if (body.projectId) { project = await prisma.project.findFirst(...) }; 404.
PatchCheckProject(r) ==
  /\ req[r].pc = "patchCheckProject"
  /\ req' = [req EXCEPT ![r] =
       IF FindProject(projects, Get(BodyOf(r).projectId), @.user) = {}
       THEN Respond(@, "ProjectNotFound")
       ELSE PatchPrepare(@, CHOOSE t \in @.snap : TRUE)]
  /\ UNCHANGED <<now, accessTokens, pomodoroSettings, projects, activeSessions, timeSessions, stream, regVersion>>

\* session = await prisma.timeSession.update({ where: { id }, data: updateData });
\* it throws when the project named no longer exists (500).
PatchUpdate(r) ==
  /\ req[r].pc = "patchUpdate"
  /\ LET data == UpdateData(BodyOf(r), CHOOSE t \in req[r].snap : TRUE)
         cur == {t \in timeSessions : t.id = req[r].sid}
     IN  IF cur = {} \/ ForeignKeyViolation(projects, data.projectId)
         THEN /\ req' = [req EXCEPT ![r] = Respond(@, "InternalError")]
              /\ UNCHANGED timeSessions
         ELSE /\ timeSessions' =
                   (timeSessions \ cur) \cup {UpdatedSession(CHOOSE t \in cur : TRUE, data)}
              /\ req' = [req EXCEPT ![r] = Respond([@ EXCEPT !.wrote = TRUE], "ok")]
  /\ UNCHANGED <<now, accessTokens, pomodoroSettings, projects, activeSessions, stream, regVersion>>

(* ------------------------ DELETE /sessions/:id ------------------------ *)
\* DELETE /sessions/:id arrives.
ReqDeleteSession(r, u, id) ==
  /\ NextToArrive(r)
  /\ req' = [req EXCEPT ![r] = [@ EXCEPT !.kind = "deleteSession", !.user = u, !.sid = id,
                                         !.pc = "sessionFind"]]
  /\ UNCHANGED <<now, accessTokens, pomodoroSettings, projects, activeSessions,
                 timeSessions, stream, regVersion>>

\* session = await prisma.timeSession.findFirst({ where: { id, userId } }); 404.
SessionFind(r) ==
  /\ req[r].pc = "sessionFind"
  /\ req' = [req EXCEPT ![r] =
       IF FindSession(timeSessions, @.sid, @.user) = {}
       THEN Respond(@, "NotFound")
       ELSE [@ EXCEPT !.pc = "sessionDelete"]]
  /\ UNCHANGED <<now, accessTokens, pomodoroSettings, projects, activeSessions,
                 timeSessions, stream, regVersion>>

\* await prisma.timeSession.delete({ where: { id } }); 204.  It throws when
\* the row is gone (500).
SessionDelete(r) ==
  /\ req[r].pc = "sessionDelete"
  /\ LET cur == {t \in timeSessions : t.id = req[r].sid}
     IN  IF cur = {}
         THEN /\ req' = [req EXCEPT ![r] = Respond(@, "InternalError")]
              /\ UNCHANGED timeSessions
         ELSE /\ timeSessions' = timeSessions \ cur
              /\ req' = [req EXCEPT ![r] = Respond([@ EXCEPT !.wrote = TRUE], "ok")]
  /\ UNCHANGED <<now, accessTokens, pomodoroSettings, projects, activeSessions,
                 stream, regVersion>>

(* -------------------------- PUT /projects/:id ------------------------- *)
\* PUT /projects/:id arrives with a body that passes projectBodySchema.
ReqUpdateProject(r, u, id) ==
  /\ NextToArrive(r)
  /\ req' = [req EXCEPT ![r] = [@ EXCEPT !.kind = "updateProject", !.user = u, !.pid = id,
                                         !.pc = "projectUpdateFind"]]
  /\ UNCHANGED <<now, accessTokens, pomodoroSettings, projects, activeSessions,
                 timeSessions, stream, regVersion>>

\* existing = await prisma.project.findFirst({ where: { id, userId } }); 404.
ProjectUpdateFind(r) ==
  /\ req[r].pc = "projectUpdateFind"
  /\ req' = [req EXCEPT ![r] =
       IF FindProject(projects, @.pid, @.user) = {}
       THEN Respond(@, "NotFound")
       ELSE [@ EXCEPT !.pc = "projectUpdate"]]
  /\ UNCHANGED <<now, accessTokens, pomodoroSettings, projects, activeSessions,
                 timeSessions, stream, regVersion>>

\* updated = await prisma.project.update({ where: { id }, data: parse.data });
\* it throws when the project is gone (the handler has no try/catch).
ProjectUpdate(r) ==
  /\ req[r].pc = "projectUpdate"
  /\ LET cur == {p \in projects : p.id = req[r].pid}
     IN  IF cur = {}
         THEN /\ req' = [req EXCEPT ![r] = Respond(@, "Unhandled")]
              /\ UNCHANGED projects
         ELSE /\ projects' = (projects \ cur) \cup {[p EXCEPT !.name = "b"] : p \in cur}
              /\ req' = [req EXCEPT ![r] = Respond([@ EXCEPT !.wrote = TRUE], "ok")]
  /\ UNCHANGED <<now, accessTokens, pomodoroSettings, activeSessions, timeSessions,
                 stream, regVersion>>

(* ------------------------------ /reports ------------------------------ *)
\* A day in ticks.  The server's time zone is taken to be UTC, so that local
\* midnight is a multiple of a day.
TicksPerDay == 24 * 60 * 60 * TicksPerSec

\* fromDate.setHours(0, 0, 0, 0)
DayStart(t) == (t \div TicksPerDay) * TicksPerDay

\* toDate.setHours(23, 59, 59, 999): the last tick of the day.
DayEnd(t) == DayStart(t) + TicksPerDay - 1

\* from ? new Date(from) : new Date()
DateOr(given, t) == IF IsVal(given) THEN Get(given) ELSE t

\* prisma.timeSession.findMany({ where: { userId, startTime: { gte, lte } } })
FindSessionsInRange(table, userId, fromDate, toDate) ==
  {t \in table : t.userId = userId /\ t.startTime >= fromDate /\ t.startTime <= toDate}

FindPomodoroSessionsAnyMode(table, userId, fromDate, toDate) ==
  {t \in table : t.userId = userId /\ t.startTime >= fromDate /\ t.startTime <= toDate}

\* prisma.timeSession.findMany({ where: { userId, mode: 'pomodoro', startTime } })
FindPomodoroSessions(table, userId, fromDate, toDate) ==
  {t \in table : /\ t.userId = userId /\ t.mode = "pomodoro"
                 /\ t.startTime >= fromDate /\ t.startTime <= toDate}

\* for (const session of sessions) { ... }: byProject, keyed by
\* session.projectId, after the loop has taken the sessions one by one.
RECURSIVE AggregateByProject(_, _)
AggregateByProject(sessions, byProject) ==
  IF sessions = {}
  THEN byProject
  ELSE LET session == CHOOSE x \in sessions : TRUE
           projectId == session.projectId
           entry == IF projectId \in DOMAIN byProject
                    THEN byProject[projectId]
                    ELSE [totalSeconds |-> 0, sessionCount |-> 0]
           added == [totalSeconds |-> entry.totalSeconds + session.durationSeconds,
                     sessionCount |-> entry.sessionCount + 1]
       IN  AggregateByProject(sessions \ {session},
             [k \in DOMAIN byProject \cup {projectId} |->
                IF k = projectId THEN added ELSE byProject[k]])

\* sessions.reduce((sum, s) => sum + s.durationSeconds, 0)
RECURSIVE ReduceSeconds(_)
ReduceSeconds(sessions) ==
  IF sessions = {}
  THEN 0
  ELSE LET s == CHOOSE x \in sessions : TRUE
       IN  ReduceSeconds(sessions \ {s}) + s.durationSeconds

\* The data of GET /reports/summary; byProject is Object.values(byProject).
SummaryReport(sessions) ==
  LET byProject == AggregateByProject(sessions, <<>>)
  IN  [totalSeconds |-> ReduceSeconds(sessions),
       sessionCount |-> Cardinality(sessions),
       byProject |-> {[projectId |-> k, totalSeconds |-> byProject[k].totalSeconds,
                       sessionCount |-> byProject[k].sessionCount] : k \in DOMAIN byProject}]

\* The data of GET /reports/pomodoro: the loop adds 1 to count per session.
PomodoroReport(pomodoroSessions) ==
  LET byProject == AggregateByProject(pomodoroSessions, <<>>)
  IN  [total |-> Cardinality(pomodoroSessions),
       byProject |-> {[projectId |-> k, count |-> byProject[k].sessionCount] :
                        k \in DOMAIN byProject}]

\* GET /reports/summary or /reports/pomodoro arrives: fromDate and toDate
\* are the given days, or today, widened to the whole day.
ReqReport(r, kind, u, from, to) ==
  /\ NextToArrive(r)
  /\ req' = [req EXCEPT ![r] = [@ EXCEPT !.kind = kind, !.user = u,
                                         !.fromDate = DayStart(DateOr(from, now)),
                                         !.toDate = DayEnd(DateOr(to, now)),
                                         !.pc = "reportRead"]]
  /\ UNCHANGED <<now, accessTokens, pomodoroSettings, projects, activeSessions,
                 timeSessions, stream, regVersion>>

\* sessions = await prisma.timeSession.findMany(...); the aggregation;
\* res.json({ data }).
ReportRead(r) ==
  /\ req[r].pc = "reportRead"
  /\ LET rq == req[r]
         report ==
           IF rq.kind = "summary"
           THEN SummaryReport(
                  FindSessionsInRange(timeSessions, rq.user, rq.fromDate, rq.toDate))
           ELSE PomodoroReport(
                  FindPomodoroSessions(timeSessions, rq.user, rq.fromDate, rq.toDate))
     IN  req' = [req EXCEPT ![r] = Respond([@ EXCEPT !.data = {report}], "ok")]
  /\ UNCHANGED <<now, accessTokens, pomodoroSettings, projects, activeSessions,
                 timeSessions, stream, regVersion>>

(* -------------------- GET /sessions/active/stream --------------------- *)
\* The closure variables of one connection.  cachedState holds the value of
\* cachedState?.activeSession (no row when cachedState is null); reads are
\* the calls of sendCurrentState whose query is in flight; lastPush,
\* lastCause (what triggered the last push delivered), firstPush, initSeen
\* (the user's row when the database executed the initial query, and whether
\* the query succeeded) and dropped (a push failed) are history.
IdleStream ==
  [pc |-> "idle", user |-> "u1", cachedState |-> {}, lastQueryTime |-> 0,
   isClosed |-> FALSE, subscribed |-> FALSE, timer |-> FALSE, connClosed |-> FALSE,
   reads |-> <<>>, lastPush |-> {}, lastCause |-> "none", firstPush |-> {},
   initSeen |-> {}, dropped |-> FALSE, issued |-> 0, cachedSeq |-> 0, cachedVer |-> 0]

NextToOpen(s) == stream[s].pc = "idle" /\ (IF s = 1 THEN TRUE ELSE stream[s - 1].pc # "idle")

\* After the awaited initial sendCurrentState(true): the handler registers
\* onChangeHandler, starts the interval and registers cleanup on 'close'.
SetUp(st) ==
  [st EXCEPT !.pc = "streaming", !.subscribed = TRUE, !.timer = TRUE, !.isClosed = FALSE]

\* const cleanup = () => { isClosed = true; clearInterval(interval);
\*   activeSessionEmitter.removeListener(...) }
Cleanup(st) ==
  [st EXCEPT !.isClosed = TRUE, !.timer = FALSE, !.subscribed = FALSE]

\* The request arrives, the headers are set and sendCurrentState(true) is
\* called and awaited.
StreamOpen(s, u) ==
  /\ NextToOpen(s)
  /\ LET st == SendCurrentState([stream[s] EXCEPT !.user = u], TRUE, "open", 0)
     IN  stream' = [stream EXCEPT ![s] =
           IF st.reads # <<>> THEN [st EXCEPT !.pc = "initRead"] ELSE SetUp(st)]
  /\ UNCHANGED <<now, accessTokens, pomodoroSettings, projects, activeSessions, timeSessions, req, regVersion>>

\* The database executes the findUnique of a call in flight: it answers
\* with the row of the user at this moment, or it fails.
StreamReadExec(s, i, ok) ==
  /\ i \in DOMAIN stream[s].reads
  /\ stream[s].reads[i].st = "issued"
  /\ LET rows == FindActive(activeSessions, stream[s].user)
     IN  stream' = [stream EXCEPT ![s] =
           [@ EXCEPT !.reads[i] = IF ok
                                  THEN [@ EXCEPT !.st = "ok", !.rows = rows,
                                                 !.ver = regVersion[stream[s].user]]
                                  ELSE [@ EXCEPT !.st = "err"],
                     !.initSeen = IF stream[s].reads[i].cause = "open"
                                  THEN {[rows |-> rows, ok |-> ok]} ELSE @]]
  /\ UNCHANGED <<now, accessTokens, pomodoroSettings, projects, activeSessions, timeSessions, req, regVersion>>

Without(seq, i) == SubSeq(seq, 1, i - 1) \o SubSeq(seq, i + 1, Len(seq))

SendCurrentStateResumeClearing(st, read) ==
  IF read.st = "ok"
  THEN SendEvent([st EXCEPT !.cachedState = read.rows, !.lastQueryTime = read.at,
                            !.cachedSeq = read.seq, !.cachedVer = read.ver],
                 StatePayload(read.rows, now), read.cause)
  ELSE SendEvent([st EXCEPT !.cachedState = {}], ErrorPayload, read.cause)

\* sendCurrentState after its await: the answer is cached and pushed, or the
\* catch pushes the error payload.
SendCurrentStateResume(st, read) ==
  IF read.st = "ok"
  THEN SendEvent([st EXCEPT !.cachedState = read.rows, !.lastQueryTime = read.at,
                            !.cachedSeq = read.seq, !.cachedVer = read.ver],
                 StatePayload(read.rows, now), read.cause)
  ELSE SendEvent(st, ErrorPayload, read.cause)

\* The answer of a call in flight reaches the handler.  The initial call is
\* awaited by the handler, which then goes on to set the connection up.
StreamReadDeliver(s, i) ==
  /\ i \in DOMAIN stream[s].reads
  /\ stream[s].reads[i].st \in {"ok", "err"}
  /\ LET read == stream[s].reads[i]
         st == SendCurrentStateResume([stream[s] EXCEPT !.reads = Without(@, i)], read)
     IN  stream' = [stream EXCEPT ![s] = IF read.cause = "open" THEN SetUp(st) ELSE st]
  /\ UNCHANGED <<now, accessTokens, pomodoroSettings, projects, activeSessions, timeSessions, req, regVersion>>

StreamTickQuerying(s) ==
  /\ stream[s].timer
  /\ stream' = [stream EXCEPT ![s] =
       IF @.isClosed
       THEN [@ EXCEPT !.timer = FALSE]
       ELSE SendCurrentState(stream[s], FALSE, "tick", 0)]
  /\ UNCHANGED <<now, accessTokens, pomodoroSettings, projects, activeSessions, timeSessions, req, regVersion>>

\* The interval fires: if (isClosed) clearInterval; else the cached session,
\* if any, is pushed with its elapsed seconds recomputed.
StreamTick(s) ==
  /\ stream[s].timer
  /\ stream' = [stream EXCEPT ![s] =
       IF @.isClosed
       THEN [@ EXCEPT !.timer = FALSE]
       ELSE IF @.cachedState # {}
            THEN SendEvent(@, ActivePayload(CHOOSE a \in @.cachedState : TRUE, now), "tick")
            ELSE @]
  /\ UNCHANGED <<now, accessTokens, pomodoroSettings, projects, activeSessions, timeSessions, req, regVersion>>

\* Either endpoint closes the connection: 'close' is emitted once, and runs
\* cleanup if the handler has registered it by then.
StreamClose(s) ==
  /\ stream[s].pc \in {"initRead", "streaming"}
  /\ ~stream[s].connClosed
  /\ stream' = [stream EXCEPT ![s] =
       IF @.pc = "streaming"
       THEN Cleanup([@ EXCEPT !.connClosed = TRUE])
       ELSE [@ EXCEPT !.connClosed = TRUE]]
  /\ UNCHANGED <<now, accessTokens, pomodoroSettings, projects, activeSessions, timeSessions, req, regVersion>>

(* ------------------------------ the clock ----------------------------- *)
ClockTick ==
  /\ now < Epoch + MaxTime
  /\ now' = now + 1
  /\ UNCHANGED <<accessTokens, pomodoroSettings, projects, activeSessions, timeSessions,
                 req, stream, regVersion>>

(* --------------------------- specification ---------------------------- *)
\* The ActiveSession table when the server starts: empty, or one session of
\* u1 left by an earlier run.
InitialRow == CreatedRow(ActiveSessionData(FullBody, "u1"), 0)

Init ==
  /\ now = Epoch
  /\ projects = InitialProjects
  /\ activeSessions \in {{}, {InitialRow}}
  /\ timeSessions = {}
  /\ req = [r \in Reqs |-> IdleReq]
  /\ stream = [s \in Streams |-> IdleStream]
  /\ regVersion = [u \in Users |-> 0]
  /\ accessTokens = InitialTokens
  /\ pomodoroSettings = {}

Next ==
  \/ \E r \in Reqs, u \in Users, b \in Bodies : ReqStart(r, u, b)
  \/ \E r \in Reqs : StartCheckProject(r)
  \/ \E r \in Reqs : UpsertFind(r)
  \/ \E r \in Reqs : UpsertWrite(r)
  \/ \E r \in Reqs : StartNotify(r)
  \/ \E r \in Reqs, u \in Users : ReqStop(r, u)
  \/ \E r \in Reqs : StopRead(r)
  \/ \E r \in Reqs : StopDiscard(r)
  \/ \E r \in Reqs : StopTxCreate(r)
  \/ \E r \in Reqs : StopTxDelete(r)
  \/ \E r \in Reqs : StopNotify(r)
  \/ \E r \in Reqs, u \in Users, id \in ProjectIds : ReqDeleteProject(r, u, id)
  \/ \E r \in Reqs : ProjectFind(r)
  \/ \E r \in Reqs : ProjectCount(r)
  \/ \E r \in Reqs : ProjectDelete(r)
  \/ \E s \in Streams, u \in Users : StreamOpen(s, u)
  \/ \E s \in Streams, i \in 1..MaxReqs, ok \in BOOLEAN : StreamReadExec(s, i, ok)
  \/ \E s \in Streams, i \in 1..MaxReqs : StreamReadDeliver(s, i)
  \/ \E s \in Streams : StreamTick(s)
  \/ \E s \in Streams : StreamClose(s)
  \/ ClockTick

Spec == Init /\ [][Next]_vars

\* The account routes behind authToken: the tokens and the pomodoro
\* settings.  No handler of these reads the clock but for lastUsedAt, so
\* the clock stands still.
AccountInit ==
  /\ now = Epoch
  /\ projects = InitialProjects
  /\ activeSessions = {}
  /\ timeSessions = {}
  /\ req = [r \in Reqs |-> IdleReq]
  /\ stream = [s \in Streams |-> IdleStream]
  /\ regVersion = [u \in Users |-> 0]
  /\ accessTokens = InitialTokens
  /\ pomodoroSettings = {}

AccountNext ==
  \/ \E r \in Reqs, t \in PresentedTokens, id \in TokenIds :
       ReqArrive(r, "deleteToken", t, id, {})
  \/ \E r \in Reqs, t \in PresentedTokens : ReqArrive(r, "createToken", t, "", {})
  \/ \E r \in Reqs, t \in PresentedTokens : ReqArrive(r, "getSettings", t, "", {})
  \/ \E r \in Reqs, t \in PresentedTokens, b \in SettingsBodies :
       ReqArrive(r, "putSettings", t, "", {b})
  \/ \E r \in Reqs : AuthFind(r)
  \/ \E r \in Reqs : AuthTouch(r)
  \/ \E r \in Reqs : TokenFind(r)
  \/ \E r \in Reqs : TokenDelete(r)
  \/ \E r \in Reqs : TokenCreate(r)
  \/ \E r \in Reqs : SettingsFind(r)
  \/ \E r \in Reqs : SettingsCreate(r)
  \/ \E r \in Reqs : SettingsUpsert(r)

AccountSpec == AccountInit /\ [][AccountNext]_vars

\* The lifecycle and project handlers alone: no connection is opened.
LifecycleNext ==
  \/ \E r \in Reqs, u \in Users, b \in Bodies : ReqStart(r, u, b)
  \/ \E r \in Reqs : StartCheckProject(r)
  \/ \E r \in Reqs : UpsertFind(r)
  \/ \E r \in Reqs : UpsertWrite(r)
  \/ \E r \in Reqs : StartNotify(r)
  \/ \E r \in Reqs, u \in Users : ReqStop(r, u)
  \/ \E r \in Reqs : StopRead(r)
  \/ \E r \in Reqs : StopDiscard(r)
  \/ \E r \in Reqs : StopTxCreate(r)
  \/ \E r \in Reqs : StopTxDelete(r)
  \/ \E r \in Reqs : StopNotify(r)
  \/ \E r \in Reqs, u \in Users, id \in ProjectIds : ReqDeleteProject(r, u, id)
  \/ \E r \in Reqs : ProjectFind(r)
  \/ \E r \in Reqs : ProjectCount(r)
  \/ \E r \in Reqs : ProjectDelete(r)
  \/ ClockTick

LifecycleSpec == Init /\ [][LifecycleNext]_vars

\* The TimeSession store and the projects: the lifecycle and project
\* handlers together with POST /projects, POST /sessions and
\* PATCH /sessions/:id, on a store that holds one session of u1 or none.
InitialSession ==
  [id |-> 0, userId |-> "u1", startTime |-> Epoch - 1, endTime |-> Epoch + 1,
   durationSeconds |-> 1, mode |-> "stopwatch", projectId |-> Null, description |-> Null]

SessionIds == 0..MaxReqs

HistoryInit ==
  /\ now = Epoch
  /\ projects = InitialProjects
  /\ activeSessions \in {{}, {InitialRow}}
  /\ timeSessions \in {{}, {InitialSession}}
  /\ req = [r \in Reqs |-> IdleReq]
  /\ stream = [s \in Streams |-> IdleStream]
  /\ regVersion = [u \in Users |-> 0]
  /\ accessTokens = InitialTokens
  /\ pomodoroSettings = {}

HistoryNext ==
  \/ LifecycleNext
  \/ \E r \in Reqs, u \in Users : ReqCreateProject(r, u)
  \/ \E r \in Reqs : ProjectCreate(r)
  \/ \E r \in Reqs, u \in Users, b \in CreateBodies : ReqCreateSession(r, u, b)
  \/ \E r \in Reqs : CreateCheckProject(r)
  \/ \E r \in Reqs : CreateSession(r)
  \/ \E r \in Reqs, u \in Users, id \in SessionIds, b \in PatchBodies :
       ReqPatchSession(r, u, id, b)
  \/ \E r \in Reqs : PatchFind(r)
  \/ \E r \in Reqs : PatchCheckProject(r)
  \/ \E r \in Reqs : PatchUpdate(r)

HistorySpec == HistoryInit /\ [][HistoryNext]_vars

\* Two users side by side: each has a project, a token, an active session
\* and a historical session, and each request names an entity of its own
\* user, of the other user, or one that does not exist.
ForeignRow == CreatedRow(ActiveSessionData(MinimalBody, "u2"), 1)

ForeignSession ==
  [InitialSession EXCEPT !.id = MaxReqs + 1, !.userId = "u2", !.projectId = Val("p2")]

NamedSessionIds == {0, MaxReqs + 1, MaxReqs + 2}
NamedProjectIds == {"p1", "p2", "p9"}
NamedTokenIds == {"k1", "k2", "k9"}

\* A start/replace naming project p2.
ForeignProjectBody == [MinimalBody EXCEPT !.projectId = Val("p2")]

IsolationInit ==
  /\ now = Epoch + 1
  /\ projects = InitialProjects
  /\ activeSessions = {InitialRow, ForeignRow}
  /\ timeSessions = {InitialSession, ForeignSession}
  /\ req = [r \in Reqs |-> IdleReq]
  /\ stream = [s \in Streams |-> IdleStream]
  /\ regVersion = [u \in Users |-> 0]
  /\ accessTokens = InitialTokens
  /\ pomodoroSettings = {}

IsolationNext ==
  \/ \E r \in Reqs, u \in Users : ReqStart(r, u, ForeignProjectBody)
  \/ \E r \in Reqs : StartCheckProject(r)
  \/ \E r \in Reqs : UpsertFind(r)
  \/ \E r \in Reqs : UpsertWrite(r)
  \/ \E r \in Reqs : StartNotify(r)
  \/ \E r \in Reqs, u \in Users : ReqStop(r, u)
  \/ \E r \in Reqs : StopRead(r)
  \/ \E r \in Reqs : StopDiscard(r)
  \/ \E r \in Reqs : StopTxCreate(r)
  \/ \E r \in Reqs : StopTxDelete(r)
  \/ \E r \in Reqs : StopNotify(r)
  \/ \E r \in Reqs, u \in Users, id \in NamedProjectIds : ReqDeleteProject(r, u, id)
  \/ \E r \in Reqs : ProjectFind(r)
  \/ \E r \in Reqs : ProjectCount(r)
  \/ \E r \in Reqs : ProjectDelete(r)
  \/ \E r \in Reqs, u \in Users, id \in NamedProjectIds : ReqUpdateProject(r, u, id)
  \/ \E r \in Reqs : ProjectUpdateFind(r)
  \/ \E r \in Reqs : ProjectUpdate(r)
  \/ \E r \in Reqs, u \in Users, id \in NamedSessionIds :
       ReqPatchSession(r, u, id, PatchProject)
  \/ \E r \in Reqs : PatchFind(r)
  \/ \E r \in Reqs : PatchCheckProject(r)
  \/ \E r \in Reqs : PatchUpdate(r)
  \/ \E r \in Reqs, u \in Users, id \in NamedSessionIds : ReqDeleteSession(r, u, id)
  \/ \E r \in Reqs : SessionFind(r)
  \/ \E r \in Reqs : SessionDelete(r)
  \/ \E r \in Reqs, u \in Users, id \in NamedTokenIds : ReqDeleteToken(r, u, id)
  \/ \E r \in Reqs : TokenFind(r)
  \/ \E r \in Reqs : TokenDelete(r)

IsolationSpec == IsolationInit /\ [][IsolationNext]_vars

\* Requests that fail: u1 sends start/replace requests whose body the
\* schema rejects or names another user's project, next to well-formed ones,
\* and stops with or without an active session, while a connection of u1
\* is open.  Every query of the connection succeeds.
StartBodies == MalformedBodies \cup {Raw(MinimalBody), Raw(ForeignProjectBody)}

FailureInit ==
  /\ now = Epoch + 1
  /\ projects = InitialProjects
  /\ activeSessions \in {{}, {InitialRow}}
  /\ timeSessions = {}
  /\ req = [r \in Reqs |-> IdleReq]
  /\ stream = [s \in Streams |-> IdleStream]
  /\ regVersion = [u \in Users |-> 0]
  /\ accessTokens = InitialTokens
  /\ pomodoroSettings = {}

FailureNext ==
  \/ \E r \in Reqs, raw \in StartBodies : ReqStartRaw(r, "u1", raw)
  \/ \E r \in Reqs : StartCheckProject(r)
  \/ \E r \in Reqs : UpsertFind(r)
  \/ \E r \in Reqs : UpsertWrite(r)
  \/ \E r \in Reqs : StartNotify(r)
  \/ \E r \in Reqs : ReqStop(r, "u1")
  \/ \E r \in Reqs : StopRead(r)
  \/ \E r \in Reqs : StopDiscard(r)
  \/ \E r \in Reqs : StopTxCreate(r)
  \/ \E r \in Reqs : StopTxDelete(r)
  \/ \E r \in Reqs : StopNotify(r)
  \/ \E s \in Streams : StreamOpen(s, "u1")
  \/ \E s \in Streams, i \in 1..MaxReqs : StreamReadExec(s, i, TRUE)
  \/ \E s \in Streams, i \in 1..MaxReqs : StreamReadDeliver(s, i)
  \/ \E s \in Streams : StreamClose(s)

FailureSpec == FailureInit /\ [][FailureNext]_vars

\* Queries that fail: a connection of u1 whose queries may fail, with its
\* tick timer, while u1 starts or replaces the session.
ReadFailureInit ==
  /\ now = Epoch
  /\ projects = InitialProjects
  /\ activeSessions = {InitialRow}
  /\ timeSessions = {}
  /\ req = [r \in Reqs |-> IdleReq]
  /\ stream = [s \in Streams |-> IdleStream]
  /\ regVersion = [u \in Users |-> 0]
  /\ accessTokens = InitialTokens
  /\ pomodoroSettings = {}

ReadFailureNext ==
  \/ \E r \in Reqs : ReqStart(r, "u1", MinimalBody)
  \/ \E r \in Reqs : UpsertFind(r)
  \/ \E r \in Reqs : UpsertWrite(r)
  \/ \E r \in Reqs : StartNotify(r)
  \/ \E s \in Streams : StreamOpen(s, "u1")
  \/ \E s \in Streams, i \in 1..MaxReqs, ok \in BOOLEAN : StreamReadExec(s, i, ok)
  \/ \E s \in Streams, i \in 1..MaxReqs : StreamReadDeliver(s, i)
  \/ \E s \in Streams : StreamTick(s)
  \/ \E s \in Streams : StreamClose(s)
  \/ ClockTick

ReadFailureSpec == ReadFailureInit /\ [][ReadFailureNext]_vars

\* Reports: the TimeSession table holds any of a few sessions of two users,
\* on three days, with and without a project, and each user asks for reports
\* of a day or a range of days while a session may be deleted.
ReportSession(id, u, start, duration, mode, project) ==
  [id |-> id, userId |-> u, startTime |-> start, endTime |-> start + duration * TicksPerSec,
   durationSeconds |-> duration, mode |-> mode, projectId |-> project, description |-> Null]

ReportSessions ==
  {ReportSession(0, "u1", 0, 1, "stopwatch", Val("p1")),
   ReportSession(1, "u1", 5, 2, "pomodoro", Val("p1")),
   ReportSession(2, "u1", TicksPerDay - 1, 4, "pomodoro", Null),
   ReportSession(3, "u1", TicksPerDay, 8, "timer", Null),
   ReportSession(4, "u2", 3, 16, "pomodoro", Val("p2"))}

\* The from and to of a request: absent (today, the first day) or a moment
\* of the second day.
ReportDates == {Undefined, Val(TicksPerDay + 7)}

ReportInit ==
  /\ now = Epoch
  /\ projects = InitialProjects
  /\ activeSessions = {}
  /\ timeSessions \in SUBSET ReportSessions
  /\ req = [r \in Reqs |-> IdleReq]
  /\ stream = [s \in Streams |-> IdleStream]
  /\ regVersion = [u \in Users |-> 0]
  /\ accessTokens = InitialTokens
  /\ pomodoroSettings = {}

ReportNext ==
  \/ \E r \in Reqs, u \in Users, from \in ReportDates, to \in ReportDates :
       ReqReport(r, "summary", u, from, to)
  \/ \E r \in Reqs, u \in Users, from \in ReportDates, to \in ReportDates :
       ReqReport(r, "pomodoro", u, from, to)
  \/ \E r \in Reqs : ReportRead(r)
  \/ \E r \in Reqs : ReqDeleteSession(r, "u1", 1)
  \/ \E r \in Reqs : SessionFind(r)
  \/ \E r \in Reqs : SessionDelete(r)

ReportSpec == ReportInit /\ [][ReportNext]_vars

\* Fan-out: several connections at once (browser tabs of one user, or of
\* different users) while u1's session is started, replaced and stopped.  No
\* project is deleted, every query of a connection succeeds and the tick
\* timers are left out.
FanOutInit ==
  /\ now = Epoch
  /\ projects = InitialProjects
  /\ activeSessions = {InitialRow}
  /\ timeSessions = {}
  /\ req = [r \in Reqs |-> IdleReq]
  /\ stream = [s \in Subscribers |-> IdleStream]
  /\ regVersion = [u \in Users |-> 0]
  /\ accessTokens = InitialTokens
  /\ pomodoroSettings = {}

FanOutNext ==
  \/ \E r \in Reqs : ReqStart(r, "u1", MinimalBody)
  \/ \E r \in Reqs : UpsertFind(r)
  \/ \E r \in Reqs : UpsertWrite(r)
  \/ \E r \in Reqs : StartNotify(r)
  \/ \E r \in Reqs : ReqStop(r, "u1")
  \/ \E r \in Reqs : StopRead(r)
  \/ \E r \in Reqs : StopDiscard(r)
  \/ \E r \in Reqs : StopTxCreate(r)
  \/ \E r \in Reqs : StopTxDelete(r)
  \/ \E r \in Reqs : StopNotify(r)
  \/ \E s \in Subscribers, u \in Users : StreamOpen(s, u)
  \/ \E s \in Subscribers, i \in 1..MaxReqs : StreamReadExec(s, i, TRUE)
  \/ \E s \in Subscribers, i \in 1..MaxReqs : StreamReadDeliver(s, i)
  \/ \E s \in Subscribers : StreamClose(s)
  \/ ClockTick

FanOutSpec == FanOutInit /\ [][FanOutNext]_vars

(* ------------------------------ claims -------------------------------- *)
StopReqs == {r \in Reqs : req[r].kind = "stop"}
StartReqs == {r \in Reqs : req[r].kind = "start"}

\* The mutable fields of a register row (its identity set aside).
Fields(row) == [row EXCEPT !.id = 0]

\* The slot a request body describes when it replaces every mutable field:
\* what it gives on an empty register.
SlotOf(body, userId) == CreatedRow(ActiveSessionData(body, userId), 0)

\* C1.  Promotion is all or nothing: a step of the transaction of a stop
\* either adds exactly one TimeSession, whose durationSeconds is the elapsed
\* time the stop computed (whole seconds from start to end, > 0), and removes
\* the user's slot, or it changes neither table.
PromotionBoth(r) ==
  /\ FindActive(activeSessions, req[r].user) # {}
  /\ FindActive(activeSessions', req[r].user) = {}
  /\ \E t \in timeSessions' :
       /\ t \notin timeSessions
       /\ timeSessions' = timeSessions \cup {t}
       /\ t.userId = req[r].user
       /\ t.durationSeconds = req[r].duration
       /\ t.durationSeconds = Duration(t.startTime, t.endTime)
       /\ t.durationSeconds > 0

PromotionNeither == timeSessions' = timeSessions /\ activeSessions' = activeSessions

PromotionAtomic ==
  [][\A r \in Reqs :
       (req[r].pc \in {"txCreate", "txDelete"} /\ req'[r].pc # req[r].pc)
         => (PromotionBoth(r) \/ PromotionNeither)]_vars

\* C1 witness: one stop has promoted (its TimeSession is stored, the slot is
\* gone) and another stop's transaction has failed.
PromotionAtomicWitness ==
  \E r1, r2 \in StopReqs :
    /\ req[r1].wrote /\ req[r1].duration > 0
    /\ \E t \in timeSessions : t.id = r1
    /\ FindActive(activeSessions, req[r1].user) = {}
    /\ req[r2].result = "InternalError" /\ req[r2].duration > 0

\* C2.  The register holds at most one active session per user.
AtMostOneActive ==
  \A u \in Users : Cardinality({a \in activeSessions : a.userId = u}) <= 1

\* C2 witness: two start/replace requests of one user have both written
\* and the user has a slot.
AtMostOneActiveWitness ==
  \E r1, r2 \in StartReqs :
    /\ r1 # r2 /\ req[r1].user = req[r2].user
    /\ req[r1].wrote /\ req[r2].wrote
    /\ FindActive(activeSessions, req[r1].user) # {}

\* C3.  Every request that has changed the register (upsert, promotion,
\* discard of a stop with elapsed <= 0) has published exactly one change
\* notification by the time it is answered.
NotifiedOncePerWrite ==
  \A r \in Reqs : (req[r].pc = "done" /\ req[r].wrote) => req[r].notified = 1

\* C4.  A stop that found a session with elapsed <= 0 created no TimeSession
\* and was answered InvalidDuration.
TookDiscardPath(r) ==
  /\ req[r].kind = "stop" /\ req[r].pc = "done"
  /\ req[r].result \in {"InvalidDuration", "InternalError"}
  /\ req[r].duration <= 0

InvalidDurationReported ==
  \A r \in Reqs :
    TookDiscardPath(r) =>
      /\ req[r].result = "InvalidDuration"
      /\ ~(\E t \in timeSessions : t.id = r)

\* C5.  When a start/replace writes the register after an earlier
\* start/replace of the user (or on an empty register), no other request
\* being in progress, the slot equals the request's payload in every mutable
\* field: nothing of the slot it replaced survives.
UpsertReplacesAll ==
  [][\A r \in Reqs :
       (/\ req[r].pc = "upsertWrite" /\ req'[r].pc = "notify"
        /\ \A q \in Reqs \ {r} : req[q].pc \in {"idle", "done"}
        /\ \A a \in FindActive(activeSessions, req[r].user) : a.id # 0)
         => \E a \in FindActive(activeSessions', req[r].user) :
              Fields(a) = SlotOf(BodyOf(r), req[r].user)]_vars

\* C6.  When start/replace requests of one user have run concurrently (all
\* have written, none is answered yet) on a register that was empty, the
\* slot equals the full payload of one of them.
ConcurrentUpsertsOneWins ==
  \A u \in Users :
    (\A r \in Reqs : req[r].kind = "start" /\ req[r].user = u /\ req[r].pc = "notify")
      => \A a \in activeSessions :
           (a.userId = u /\ a.id # 0)
             => \E r \in Reqs : Fields(a) = SlotOf(BodyOf(r), u)

\* C7.  A change notification is published only by a request whose write is
\* committed, and the read a subscriber starts on the notification returns
\* the register as of that write or later.
PublishAfterCommit ==
  /\ \A r \in Reqs : req[r].notified > 0 => req[r].wrote
  /\ \A s \in Streams : \A i \in DOMAIN stream[s].reads :
       (stream[s].reads[i].cause = "event" /\ stream[s].reads[i].st = "ok")
         => stream[s].reads[i].ver >= stream[s].reads[i].minVer

\* C7 witness: a read started by the notification of a committed write has
\* returned.
PublishAfterCommitWitness ==
  \E s \in Streams : \E i \in DOMAIN stream[s].reads :
    /\ stream[s].reads[i].cause = "event" /\ stream[s].reads[i].st = "ok"
    /\ stream[s].reads[i].minVer > 0

\* Nothing is in progress: every request is answered and no query of a
\* stream is in flight, so only ticks can follow unless a new request comes.
Quiescent ==
  /\ \A r \in Reqs : req[r].pc \in {"idle", "done"}
  /\ \A s \in Streams : stream[s].reads = <<>>

\* What the stream pushes as long as nothing changes: the cached session on
\* every tick, or nothing more after its last push.
ReflectsRegister(s) ==
  LET register == FindActive(activeSessions, stream[s].user)
  IN  IF stream[s].cachedState # {}
      THEN stream[s].cachedState = register
      ELSE register = {} /\ \A p \in stream[s].lastPush : ~p.active

\* C8.  Once the user's slot has changed (start/replace, promotion or
\* discard) and everything has settled, every open stream of the user pushes
\* the register's state, not an earlier one.
StreamsCatchUp ==
  \A s \in Streams :
    (/\ Quiescent
     /\ projects = InitialProjects
     /\ stream[s].pc = "streaming" /\ ~stream[s].connClosed
     /\ regVersion[stream[s].user] > 0)
      => ReflectsRegister(s)

\* C9.  A connection that was closed has no tick timer and no handler on
\* the emitter.
ClosedStreamsReleased ==
  \A s \in Streams :
    stream[s].connClosed => (~stream[s].timer /\ ~stream[s].subscribed)

\* A payload that shows the register state rows: active with the row's
\* fields, or inactive.
Matches(payload, rows) == payload.active = (rows # {}) /\ payload.session = rows

\* C10 as stated.  The first push of a stream comes from the initial read
\* and matches the user's register state at that read.
FirstPushMatchesRegister ==
  \A s \in Streams : \A f \in stream[s].firstPush :
    /\ f.cause = "open"
    /\ \E seen \in stream[s].initSeen : Matches(f.payload, seen.rows)

\* C10 as amended.  The first push of a stream comes from the initial read,
\* which queried the register; it matches the user's register state at that
\* read when the read succeeded, and is the error payload (active = false)
\* when the read failed.
FirstPushFromInitialRead ==
  \A s \in Streams : \A f \in stream[s].firstPush :
    /\ f.cause = "open"
    /\ \E seen \in stream[s].initSeen :
         IF seen.ok
         THEN Matches(f.payload, seen.rows) /\ ~f.payload.error
         ELSE f.payload = ErrorPayload

\* C10 witness: a stream has made its first push, for a user who had a slot
\* at the initial read, and shows it.
FirstPushWitness ==
  \E s \in Streams : \E f \in stream[s].firstPush :
    f.payload.active /\ \E seen \in stream[s].initSeen : seen.rows # {}

\* C11.  A stop that finds no active session of the user is answered
\* NoActiveSession and changes nothing: the TimeSession store, every slot of
\* the register and the projects are as before, and nothing is published
\* (no subscriber is called, the request has published nothing).  A stop
\* that finds a session is not answered NoActiveSession.
NoActiveSessionNoEffect ==
  [][\A r \in Reqs :
       (req[r].pc = "stopRead" /\ req'[r].pc # "stopRead")
         => IF FindActive(activeSessions, req[r].user) = {}
            THEN /\ req'[r].pc = "done" /\ req'[r].result = "NoActiveSession"
                 /\ req'[r].notified = 0 /\ ~req'[r].wrote
                 /\ UNCHANGED <<projects, activeSessions, timeSessions, stream, regVersion>>
            ELSE req'[r].result # "NoActiveSession"]_vars

\* C11 witness: a stop was answered NoActiveSession while the register holds
\* a slot (of another user, or one started since).
NoActiveSessionWitness ==
  \E r \in StopReqs :
    /\ req[r].pc = "done" /\ req[r].result = "NoActiveSession"
    /\ activeSessions # {}

\* C12.  When the transaction of a stop commits, the TimeSession it creates
\* has the start time, mode, project and description of the slot that the
\* transaction deletes.
SessionCopiesDeletedSlot ==
  [][\A r \in Reqs :
       (req[r].pc = "txDelete" /\ req'[r].pc = "notify")
         => \E t \in timeSessions' \ timeSessions :
              \A a \in FindActive(activeSessions, req[r].user) :
                /\ t.startTime = a.startTime
                /\ t.mode = a.mode
                /\ t.projectId = a.projectId
                /\ t.description = a.description]_vars

\* C13.  A tick of a stream queries nothing: it leaves the stream's queries
\* in flight, its cache and its last query time as they are.  The number of
\* queries of a stream grows only in a step that opens the stream or in
\* which a request publishes a change notification.
TickNeverQueries ==
  [][\A s \in Streams :
       /\ StreamTick(s) =>
            /\ stream'[s].reads = stream[s].reads
            /\ stream'[s].cachedState = stream[s].cachedState
            /\ stream'[s].lastQueryTime = stream[s].lastQueryTime
       /\ Len(stream'[s].reads) > Len(stream[s].reads) =>
            \/ stream[s].pc = "idle"
            \/ \E r \in Reqs : req'[r].notified > req[r].notified]_vars

\* C13 witness: the last push of a stream was made by a tick, with the
\* elapsed seconds recomputed (they differ from those at the fetch), and no
\* query is in flight.
TickPushWitness ==
  \E s \in Streams : \E p \in stream[s].lastPush : \E a \in stream[s].cachedState :
    /\ stream[s].lastCause = "tick" /\ stream[s].reads = <<>>
    /\ p.active
    /\ p.elapsedSeconds # ElapsedSeconds(a.startTime, stream[s].lastQueryTime)

\* C14.  A step in which a request publishes for its user U adds one query
\* (a fresh read, started by the event) to every connection that has its
\* handler registered for U, however many there are, and changes nothing on
\* any other connection; when the answer of such a query reaches a
\* connection that is open, the connection pushes the state the query read
\* (the error payload if the query failed).
PublishWakesSubscribers ==
  [][/\ \A r \in Reqs :
          req'[r].notified > req[r].notified =>
            \A s \in Subscribers :
              IF stream[s].subscribed /\ stream[s].user = req[r].user
              THEN /\ Len(stream'[s].reads) = Len(stream[s].reads) + 1
                   /\ stream'[s].reads[Len(stream'[s].reads)].cause = "event"
                   /\ stream'[s].reads[Len(stream'[s].reads)].st = "issued"
                   /\ SubSeq(stream'[s].reads, 1, Len(stream[s].reads)) = stream[s].reads
              ELSE stream'[s] = stream[s]
     /\ \A s \in Subscribers : \A i \in 1..MaxReqs :
          (/\ StreamReadDeliver(s, i)
           /\ stream[s].reads[i].cause = "event"
           /\ ~stream[s].connClosed)
            => /\ stream'[s].lastCause = "event"
               /\ stream'[s].lastPush =
                    {IF stream[s].reads[i].st = "ok"
                     THEN StatePayload(stream[s].reads[i].rows, now)
                     ELSE ErrorPayload}]_vars

\* C14 witness: two connections of one user have both pushed the state they
\* read after a publish of a request of that user.
PublishWakesWitness ==
  \E s1, s2 \in Subscribers :
    /\ s1 # s2 /\ stream[s1].user = stream[s2].user
    /\ stream[s1].lastCause = "event" /\ stream[s2].lastCause = "event"
    /\ \E r \in Reqs : req[r].notified = 1 /\ req[r].user = stream[s1].user

\* C15.  A change notification that reaches a connection within
\* QUERY_CACHE_MS of the connection's last fetch starts no query: the
\* connection's queries in flight are unchanged and it pushes the value it
\* fetched last.
NotificationsWithinWindowCollapse ==
  [][\A r \in Reqs : \A s \in Streams :
       (/\ req'[r].notified > req[r].notified
        /\ stream[s].subscribed /\ ~stream[s].connClosed
        /\ stream[s].user = req[r].user
        /\ stream[s].lastQueryTime > 0
        /\ (now - stream[s].lastQueryTime) * MsPerTick <= QUERY_CACHE_MS)
         => /\ stream'[s].reads = stream[s].reads
            /\ stream'[s].lastPush = {StatePayload(stream[s].cachedState, now)}]_vars

\* C16.  A push that fails (the connection is closed) is swallowed.  The
\* step in which it fails changes no request, no table and no other
\* connection.  A request that publishes while a connection is closed (its
\* handler still registered, a query of it in flight, or a push of it
\* already failed) is answered ok, its step changes no table, and every
\* open connection subscribed for the user gets its query.
PushFailureSwallowed ==
  [][/\ \A s \in Subscribers : \A i \in 1..MaxReqs :
          (StreamReadDeliver(s, i) /\ stream[s].connClosed)
            => /\ stream'[s].dropped
               /\ stream'[s].lastPush = stream[s].lastPush
               /\ UNCHANGED <<req, projects, activeSessions, timeSessions, regVersion>>
               /\ \A o \in Subscribers \ {s} : stream'[o] = stream[o]
     /\ \A r \in Reqs :
          (/\ req'[r].notified > req[r].notified
           /\ \E s \in Subscribers :
                /\ stream[s].connClosed
                /\ stream[s].subscribed \/ stream[s].dropped \/ stream[s].reads # <<>>)
            => /\ req'[r].pc = "done" /\ req'[r].result = "ok" /\ req'[r].wrote
               /\ UNCHANGED <<projects, activeSessions, timeSessions, regVersion>>
               /\ \A o \in Subscribers :
                    (stream[o].subscribed /\ ~stream[o].connClosed
                     /\ stream[o].user = req[r].user)
                      => Len(stream'[o].reads) = Len(stream[o].reads) + 1]_vars

\* C16 witness: a push to a closed connection of a user has failed, another
\* connection of the user has pushed on an event, and a start of the user
\* that published is answered ok with its session in the register.
PushFailureWitness ==
  \E s1, s2 \in Subscribers : \E r \in StartReqs :
    /\ s1 # s2 /\ stream[s1].user = req[r].user /\ stream[s2].user = req[r].user
    /\ stream[s1].connClosed /\ stream[s1].dropped
    /\ ~stream[s2].connClosed /\ stream[s2].lastCause = "event"
    /\ req[r].result = "ok" /\ req[r].notified = 1
    /\ \E a \in activeSessions : a.userId = req[r].user /\ Fields(a) # Fields(InitialRow)

\* A project reference of an active session names a project of the
\* session's user.
ProjectRefsOwned ==
  \A a \in activeSessions :
    IsVal(a.projectId) =>
      \E p \in projects : p.id = Get(a.projectId) /\ p.userId = a.userId

\* C17.  A start/replace whose project the user does not own is answered
\* ProjectNotFound by the step that looks the project up; that step and the
\* request leave the register unchanged; and in every state, whatever
\* projects are created and deleted meanwhile, a project reference of an
\* active session names a project of the same user.
ForeignProjectRefused ==
  /\ []ProjectRefsOwned
  /\ [][\A r \in Reqs :
          (req[r].pc = "checkProject" /\ req'[r].pc # "checkProject")
            => IF \E p \in projects :
                    p.id = Get(BodyOf(r).projectId) /\ p.userId = req[r].user
               THEN req'[r].pc = "upsertFind"
               ELSE /\ req'[r].pc = "done" /\ req'[r].result = "ProjectNotFound"
                    /\ ~req'[r].wrote /\ req'[r].notified = 0
                    /\ UNCHANGED <<activeSessions, regVersion>>]_vars

\* C17 witness: a start naming a project of another user was answered
\* ProjectNotFound while the register holds a session, written by a
\* request, that names a project.
ForeignProjectWitness ==
  \E r \in StartReqs :
    /\ req[r].result = "ProjectNotFound"
    /\ \E a \in activeSessions : IsVal(a.projectId) /\ a.id # 0 /\ a.userId # req[r].user

\* A string that is empty or holds only whitespace.
IsBlank(str) == \A i \in 1..Len(str) : IsSpace(str[i])

\* C18.  No active session in the register has a description that is empty
\* or only whitespace.
NoBlankDescription ==
  \A a \in activeSessions : IsVal(a.description) => ~IsBlank(Get(a.description))

\* C18 witness: a start/replace whose description is blank has written the
\* register, and the user's slot has a description that is absent or is
\* the earlier, non-blank one.
NoBlankDescriptionWitness ==
  \E r \in StartReqs :
    /\ req[r].wrote /\ req[r].body = {BlankBody}
    /\ \E a \in activeSessions : a.userId = req[r].user /\ a.startTime = BlankBody.startTime

\* C19.  Every TimeSession in the store, whether promoted, created by
\* POST /sessions or updated by PATCH /sessions/:id, has durationSeconds
\* equal to the whole seconds from its start time to its end time.
DurationMatchesTimes ==
  \A t \in timeSessions : t.durationSeconds = Duration(t.startTime, t.endTime)

\* C20.  No step deletes a project that a TimeSession references, and a
\* deletion request that is answered while a TimeSession references its
\* project is answered Conflict (or NotFound, for a project the user does
\* not own) and leaves the project and the sessions unchanged.
ProjectKeptWhileReferenced ==
  [][/\ \A p \in projects \ projects' :
          ~(\E t \in timeSessions : t.projectId = Val(p.id))
     /\ \A r \in Reqs :
          (/\ req[r].kind = "deleteProject" /\ req[r].pc # "done" /\ req'[r].pc = "done"
           /\ \E t \in timeSessions : t.projectId = Val(req[r].pid))
            => /\ req'[r].result \in {"Conflict", "NotFound"}
               /\ UNCHANGED <<projects, timeSessions>>]_vars

AccountHandlerStates ==
  {"tokenFind", "tokenDelete", "tokenCreate", "settingsFind", "settingsCreate",
   "settingsUpsert"}

\* A token is usable: a row holds it and has no revocation time.
Usable(table, token) == \E t \in table : t.token = token /\ t.revokedAt = Null

\* C21.  A request becomes authenticated as a user only on a lookup that
\* finds a row holding the presented token, belonging to that user and
\* without a revocation time; a token that is not usable (revoked, deleted
\* or unknown) never becomes usable again, and a lookup of such a token
\* answers Unauthenticated, so the request never enters a handler.
AuthenticatedOnlyByUsableToken ==
  [][/\ \A r \in Reqs :
          /\ (req[r].pc = "authFind" /\ req'[r].pc = "authTouch")
               => \E t \in accessTokens :
                    /\ t.token = req[r].tok /\ t.revokedAt = Null
                    /\ t.userId = req'[r].user /\ t.id = req'[r].key
          /\ (req[r].pc = "authFind" /\ req'[r].pc # "authFind"
              /\ ~Usable(accessTokens, req[r].tok))
               => req'[r].pc = "done" /\ req'[r].result = "Unauthenticated"
          /\ (req'[r].pc \in AccountHandlerStates /\ req[r].pc \notin AccountHandlerStates)
               => req[r].pc = "authTouch"
     /\ \A token \in PresentedTokens :
          ~Usable(accessTokens, token) => ~Usable(accessTokens', token)]_vars

\* C21 witness: a request deleted token k1 of u1, and a later request that
\* presented that token was answered Unauthenticated; one that presented
\* the revoked token was too.
AuthenticatedOnlyByUsableTokenWitness ==
  /\ req[1].kind = "deleteToken" /\ req[1].tid = "k1" /\ req[1].result = "ok"
  /\ req[2].tok = "t1" /\ req[2].result = "Unauthenticated"

\* C23.  Every read of the pomodoro settings by an authenticated user is
\* answered with success and the user's settings row (the defaults when the
\* read created it), and each user has at most one settings row.
SettingsReadSucceeds ==
  /\ \A r \in Reqs :
       (/\ req[r].kind = "getSettings" /\ req[r].pc = "done"
        /\ req[r].result \notin {"Unauthenticated", "AuthError"})
         => /\ req[r].result = "ok"
            /\ \E x \in req[r].data : x.userId = req[r].user
            /\ req[r].wrote => req[r].data = {SettingsRow(req[r].user, SettingsDefaults)}
  /\ \A x, y \in pomodoroSettings : x.userId = y.userId => x = y

\* The rows of a table that belong to other users than u.
RowsOfOthers(table, u) == {x \in table : x.userId # u}

\* C22.  A step of a request of user U leaves every row of every other user
\* as it was and leaves the request holding rows of U only; a request whose
\* lookup names a session, project or token that U does not own (another
\* user's, or none) is answered NotFound by that lookup, with the same
\* answer in both cases and nothing changed.
NoCrossUserEffect ==
  [][\A r \in Reqs :
       req'[r] # req[r] =>
         LET u == req'[r].user
             rq == req[r]
         IN  /\ RowsOfOthers(projects', u) = RowsOfOthers(projects, u)
             /\ RowsOfOthers(activeSessions', u) = RowsOfOthers(activeSessions, u)
             /\ RowsOfOthers(timeSessions', u) = RowsOfOthers(timeSessions, u)
             /\ RowsOfOthers(accessTokens', u) = RowsOfOthers(accessTokens, u)
             /\ \A x \in req'[r].snap \cup req'[r].tx \cup req'[r].data : x.userId = u
             /\ (/\ rq.pc \in {"patchFind", "sessionFind"}
                 /\ ~(\E t \in timeSessions : t.id = rq.sid /\ t.userId = u))
                  => req'[r] = Respond(rq, "NotFound") /\ UNCHANGED timeSessions
             /\ (/\ rq.pc \in {"projectFind", "projectUpdateFind"}
                 /\ ~(\E p \in projects : p.id = rq.pid /\ p.userId = u))
                  => req'[r] = Respond(rq, "NotFound") /\ UNCHANGED projects
             /\ (/\ rq.pc = "tokenFind"
                 /\ ~(\E t \in accessTokens : t.id = rq.tid /\ t.userId = u))
                  => req'[r] = Respond(rq, "NotFound") /\ UNCHANGED accessTokens
             /\ (/\ rq.pc \in {"checkProject", "patchCheckProject"}
                 /\ ~(\E p \in projects :
                        p.id = Get((CHOOSE b \in rq.body : TRUE).projectId) /\ p.userId = u))
                  => /\ req'[r] = Respond(rq, "ProjectNotFound")
                     /\ UNCHANGED <<projects, activeSessions, timeSessions>>]_vars

\* C22 witness: u1 asked to delete session 3 of u2 and to rename project p2
\* of u2; both were answered NotFound and u2's rows are as they were.
NoCrossUserEffectWitness ==
  /\ req[1].kind = "deleteSession" /\ req[1].user = "u1" /\ req[1].sid = MaxReqs + 1
  /\ req[1].result = "NotFound"
  /\ req[2].kind = "updateProject" /\ req[2].user = "u1" /\ req[2].pid = "p2"
  /\ req[2].result = "NotFound"
  /\ ForeignSession \in timeSessions
  /\ RowsOfOthers(projects, "u1") = RowsOfOthers(InitialProjects, "u1")

\* C24.  A start/replace request whose body has a mode or a pomodoro phase
\* outside its set, a negative pomodoro cycle or target, or a missing or
\* malformed start time is answered ValidationError in the step it arrives,
\* with the register unchanged; and every active session in the register has
\* a mode of the three, a phase of its three or none, a pomodoro cycle >= 0
\* and a target >= 0 or none.
MalformedStartRejected ==
  /\ [](\A a \in activeSessions :
          /\ a.mode \in {"stopwatch", "timer", "pomodoro"}
          /\ a.pomodoroPhase = Null \/ Get(a.pomodoroPhase) \in {"work", "shortBreak", "longBreak"}
          /\ a.pomodoroCycle >= 0
          /\ a.targetSeconds = Null \/ Get(a.targetSeconds) >= 0)
  /\ [][\A r \in Reqs, raw \in MalformedBodies :
          ReqStartRaw(r, "u1", raw)
            => /\ req'[r].pc = "done" /\ req'[r].result = "ValidationError"
               /\ UNCHANGED <<activeSessions, timeSessions, regVersion, stream>>]_vars

\* C24 witness: two start/replace requests with a body the schema rejects
\* were answered ValidationError while u1's session stayed as it was.
MalformedStartRejectedWitness ==
  /\ req[1].kind = "start" /\ req[1].result = "ValidationError"
  /\ req[2].kind = "start" /\ req[2].result = "ValidationError"
  /\ activeSessions = {InitialRow}

\* The answers of a start/replace or stop that failed.
Failures == {"ValidationError", "ProjectNotFound", "NoActiveSession", "InternalError"}

\* C26.  A start/replace or stop request that is answered ValidationError,
\* ProjectNotFound, NoActiveSession or with the error of a failed
\* transaction has published no notification, and a step of a request that
\* publishes none leaves every connection as it was: no read is issued and
\* nothing is pushed.
FailureNotPublished ==
  /\ [](\A r \in Reqs :
          (req[r].pc = "done" /\ req[r].result \in Failures) => req[r].notified = 0)
  /\ [][\A r \in Reqs :
          (req'[r] # req[r] /\ req'[r].notified = req[r].notified)
            => UNCHANGED stream]_vars

\* C26 witness: while a connection of u1 was open, a stop of u1 was promoted
\* and a concurrent stop failed in its transaction; the connection has read
\* the register once for the one notification.
FailureNotPublishedWitness ==
  /\ \E r \in Reqs : req[r].kind = "stop" /\ req[r].result = "InternalError"
  /\ \E r \in Reqs : req[r].kind = "stop" /\ req[r].result = "ok" /\ req[r].notified = 1
  /\ \E s \in Streams :
       /\ stream[s].pc = "streaming" /\ stream[s].lastCause = "event"
       /\ stream[s].reads = <<>>

\* The stops that read an active session with elapsed > 0.
PromotingStops == {r \in Reqs : req[r].kind = "stop" /\ req[r].duration > 0}

\* C25.  When the only requests are stops of u1, all answered, and two or
\* more of them read the one active session with elapsed > 0 (none read it
\* with elapsed <= 0), then exactly one TimeSession exists, it is that of the
\* one stop answered with success, every other stop that read the session
\* is answered with an error, and u1 has no active session.
ConcurrentStopsPromoteOnce ==
  (/\ \A r \in Reqs : req[r].pc # "idle" =>
         /\ req[r].kind = "stop" /\ req[r].user = "u1" /\ req[r].pc = "done"
         /\ req[r].result # "NoActiveSession" => req[r].duration > 0
   /\ Cardinality(PromotingStops) >= 2)
    => /\ Cardinality(timeSessions) = 1
       /\ \E w \in PromotingStops :
            /\ req[w].result = "ok"
            /\ \A t \in timeSessions : t.id = w /\ t.userId = "u1"
            /\ \A r \in PromotingStops \ {w} : req[r].result = "InternalError"
       /\ FindActive(activeSessions, "u1") = {}

\* C25 witness: two stops of u1 both read the active session with elapsed
\* > 0; one was answered with success and the other with an error.
ConcurrentStopsPromoteOnceWitness ==
  /\ req[1].kind = "stop" /\ req[2].kind = "stop"
  /\ req[1].user = "u1" /\ req[2].user = "u1"
  /\ req[1].pc = "done" /\ req[2].pc = "done"
  /\ req[1].duration > 0 /\ req[2].duration > 0
  /\ {req[1].result, req[2].result} = {"ok", "InternalError"}
  /\ Cardinality(timeSessions) = 1

\* C27.  On one stream a fresh read that is delivered never carries a
\* register state older than the one the stream pushed and cached last, and
\* when no read is in flight the cached state is the answer of the read
\* issued last.
OverlappingReadsInOrder ==
  /\ [][\A s \in Streams : \A i \in DOMAIN stream[s].reads :
          (StreamReadDeliver(s, i) /\ stream[s].reads[i].st = "ok")
            => stream[s].reads[i].ver >= stream[s].cachedVer]_vars
  /\ [](\A s \in Streams :
          stream[s].reads = <<>> => stream[s].cachedSeq = stream[s].issued)

\* C28.  When the answer of a failed query reaches an open stream, the
\* stream pushes one payload with active = false and an error and keeps its
\* cached state and last query time; a tick of an open stream that has a
\* cached session pushes that session as active.
FailedReadKeepsCache ==
  [][\A s \in Streams :
       /\ \A i \in DOMAIN stream[s].reads :
            (StreamReadDeliver(s, i) /\ stream[s].reads[i].st = "err")
              => /\ stream'[s].cachedState = stream[s].cachedState
                 /\ stream'[s].lastQueryTime = stream[s].lastQueryTime
                 /\ ~stream[s].connClosed =>
                      /\ Cardinality(stream'[s].lastPush) = 1
                      /\ \A p \in stream'[s].lastPush : ~p.active /\ p.error
       /\ (/\ StreamTick(s) /\ ~stream[s].isClosed /\ ~stream[s].connClosed
           /\ stream[s].cachedState # {})
            => /\ stream'[s].lastCause = "tick"
               /\ \A p \in stream'[s].lastPush :
                    p.active /\ p.session = stream[s].cachedState]_vars

\* C28 witness: a query started by a change notification failed while the
\* stream held a session in its cache, and the last push of the stream is a
\* tick's, of that session.
FailedReadKeepsCacheWitness ==
  \E s \in Streams :
    /\ stream[s].reads = <<>> /\ stream[s].issued = 2 /\ stream[s].cachedSeq = 1
    /\ stream[s].cachedState # {}
    /\ stream[s].lastCause = "tick"
    /\ \A p \in stream[s].lastPush : p.active /\ p.session = stream[s].cachedState

\* The sum of the durations of a set of sessions: those of one session plus
\* those of the rest.
RECURSIVE TotalDuration(_)
TotalDuration(S) ==
  IF S = {} THEN 0
  ELSE LET m == CHOOSE x \in S : \A y \in S : x.id >= y.id
       IN  m.durationSeconds + TotalDuration(S \ {m})

\* The sum of a field over the groups of a report.
RECURSIVE SumOverGroups(_, _)
SumOverGroups(groups, field) ==
  IF groups = {} THEN 0
  ELSE LET g == CHOOSE x \in groups : TRUE
       IN  g[field] + SumOverGroups(groups \ {g}, field)

\* The user's sessions that start on the days fromDate..toDate of a request.
InPeriod(rq) ==
  {t \in timeSessions : t.userId = rq.user /\ rq.fromDate <= t.startTime
                        /\ t.startTime <= rq.toDate}

\* C29.  The summary report answered has one group per project (or none) of
\* the user's sessions that start in the period, each with the sum of the
\* durations and the number of its sessions, and overall totals that are
\* the sums over the groups; the pomodoro report does the same counting
\* only the sessions whose mode is pomodoro.
ReportsAggregate ==
  [][\A r \in Reqs :
       (req[r].pc = "reportRead" /\ req'[r].pc = "done") =>
         \A report \in req'[r].data :
           LET counted ==
                 IF req[r].kind = "summary" THEN InPeriod(req[r])
                 ELSE {t \in InPeriod(req[r]) : t.mode = "pomodoro"}
               OfProject(k) == {t \in counted : t.projectId = k}
           IN  /\ req'[r].data # {}
               /\ {g.projectId : g \in report.byProject} = {t.projectId : t \in counted}
               /\ \A g, h \in report.byProject : g.projectId = h.projectId => g = h
               /\ IF req[r].kind = "summary"
                  THEN /\ \A g \in report.byProject :
                            /\ g.totalSeconds = TotalDuration(OfProject(g.projectId))
                            /\ g.sessionCount = Cardinality(OfProject(g.projectId))
                       /\ report.totalSeconds = SumOverGroups(report.byProject, "totalSeconds")
                       /\ report.sessionCount = SumOverGroups(report.byProject, "sessionCount")
                       /\ report.sessionCount = Cardinality(counted)
                  ELSE /\ \A g \in report.byProject :
                            g.count = Cardinality(OfProject(g.projectId))
                       /\ report.total = SumOverGroups(report.byProject, "count")
                       /\ report.total = Cardinality(counted)]_vars

\* C29 witness: a summary report of u1 over the first two days has two
\* groups, project p1 with two sessions and no project with two, and a
\* pomodoro report of u1 over the same days counts two sessions of four.
ReportsAggregateWitness ==
  /\ req[1].kind = "summary" /\ req[1].user = "u1" /\ req[1].pc = "done"
  /\ \E report \in req[1].data :
       /\ report.sessionCount = 4 /\ report.totalSeconds = 15
       /\ [projectId |-> Val("p1"), totalSeconds |-> 3, sessionCount |-> 2] \in report.byProject
       /\ [projectId |-> Null, totalSeconds |-> 12, sessionCount |-> 2] \in report.byProject
  /\ req[2].kind = "pomodoro" /\ req[2].user = "u1" /\ req[2].pc = "done"
  /\ \E report \in req[2].data : report.total = 2 /\ Cardinality(report.byProject) = 2

====
